---- MODULE Spec2Model ----
(***************************************************************************)
(* A model of gdbpanel (src/gdbpanel.py): the layout tree and its          *)
(* validation, the styled line (ANSIstr), the panes' render contract, the   *)
(* panel's refresh protocol and the relay of the inferior's output.        *)
(*                                                                         *)
(* Python lists are sequences, a Python dict is a sequence of <<key,       *)
(* value>> pairs in insertion order, a string is a sequence of one-        *)
(* character strings, None is the empty tuple.                             *)
(***************************************************************************)
EXTENDS Integers, Sequences, FiniteSets, TLC

VARIABLES
    \* ---- layout construction (Panel.Layout) ----
    config,         \* the slots list handed to Panel.Layout(config, width, height)
    term,           \* <<width, height>> handed to it
    layout,         \* the outcome of the constructor, NoLayout before it ran
    drawn,          \* what rendering the tree of the layout gave
    \* ---- one styled line (Panel.ANSIstr) ----
    line,           \* the object: [seq, fix]
    src,            \* what the line was built from
    call,           \* the last call on the line and what it gave back
    \* ---- one pane and what it reads ----
    pane,           \* the pane object: its class and the fields of its class
    console,        \* the Console flags and its list of breakpoints
    world,          \* what gdb and the file system answer: frames, breakpoints,
                    \* values, files, the last command, the value history
    logger,         \* Console.Logger: logs and cursor
    out,            \* the last Pane.render call and what it gave back
    \* ---- the panel ----
    panel,          \* the Panel object: flags, size, layout, pane <-> slot
    tty,            \* <<columns, lines>> of the terminal
    pc,             \* "prompt": gdb waits for a command, "hook": a command has
                    \* run and the before_prompt hook is due
    did,            \* the command whose hook is due, what it raised, the panel before it
    cycle,          \* the refresh cycle since the last command
    retained,       \* what was on display before the first rejected layout
                    \* switch since the last accepted one
    \* ---- the relay of the inferior's output (Console.Logger) ----
    threads,        \* the threads started on Logger.redirect: where each one is
    chan,           \* the channel: the fifo and its selector, "none" before
                    \* Logger.start, "open", "closed" after Logger.end
    fifo,           \* what the inferior wrote and nobody read yet
    inferior,       \* the child process: "none", "running", "stopped", "exited"
    main,           \* where gdb's own thread is: "prompt", or inside a handler
    wrote,          \* the execution contexts that wrote logs or cursor so far
    ring,           \* the lines stored in logs so far, and the writers at work
    tmp              \* the fifos in the directory /tmp, and what the session connected to
                    \* gdb's events

layout_vars == <<config, term, layout, drawn>>
ansi_vars == <<line, src, call>>
pane_vars == <<pane, console, world, logger, out>>
panel_vars == <<panel, tty, pc, did, cycle, retained>>
relay_vars == <<threads, chan, fifo, inferior, main, wrote>>
store_vars == <<ring, tmp>>

----------------------------------------------------------------------------
(* Generic helpers                                                         *)

Min(a, b) == IF a < b THEN a ELSE b
Max(a, b) == IF a > b THEN a ELSE b

Range(s) == {s[i] : i \in 1..Len(s)}

\* Python dict: insertion ordered, assignment to a present key keeps its place
DictHas(d, k) == \E i \in 1..Len(d) : d[i][1] = k
DictGet(d, k) == d[CHOOSE i \in 1..Len(d) : d[i][1] = k][2]
DictSet(d, k, v) ==
    IF DictHas(d, k)
    THEN [i \in 1..Len(d) |-> IF d[i][1] = k THEN <<k, v>> ELSE d[i]]
    ELSE Append(d, <<k, v>>)
DictKeys(d) == {d[i][1] : i \in 1..Len(d)}

\* math.ceil(n / 10) for an integer n >= 0
CeilDiv10(n) == (n + 9) \div 10

----------------------------------------------------------------------------
(* Panel.LayoutChecker                                                     *)

GridUnits == 10

None == <<>>

\* LayoutChecker.__init__: self.ranges
LayoutChecker_init == << <<0, GridUnits, 0>> >>

RECURSIVE add_loop(_, _, _, _, _, _)
add_loop(ranges, k, left, right, val, new_ranges) ==
    IF k > Len(ranges) THEN new_ranges
    ELSE LET R == ranges[k] IN
         IF R[1] >= right \/ R[2] <= left
         THEN add_loop(ranges, k + 1, left, right, val, Append(new_ranges, R))
         ELSE LET l == R[1]
                  r == R[2]
                  v == R[3]
                  keepl == IF l < left THEN << <<l, left, v>> >> ELSE <<>>
                  inter == << <<left, Min(r, right), v + val>> >>
                  keepr == IF r > right THEN << <<right, r, v>> >> ELSE <<>>
                  left2 == IF r < right THEN r ELSE left
              IN add_loop(ranges, k + 1, left2, right, val,
                          new_ranges \o keepl \o inter \o keepr)

\* a plausible slip: the part of R right of the added range gets the sum too
add_mutant(ranges, left, right, val) ==
    LET RECURSIVE loop(_, _, _)
        loop(k, lf, acc) ==
            IF k > Len(ranges) THEN acc
            ELSE LET R == ranges[k] IN
                 IF R[1] >= right \/ R[2] <= lf
                 THEN loop(k + 1, lf, Append(acc, R))
                 ELSE loop(k + 1, IF R[2] < right THEN R[2] ELSE lf,
                           acc \o (IF R[1] < lf THEN << <<R[1], lf, R[3]>> >> ELSE <<>>)
                               \o << <<lf, R[2], R[3] + val>> >>)
    IN loop(1, left, <<>>)

\* LayoutChecker.add(left, right, val) -> the new self.ranges
add(ranges, left, right, val) == add_loop(ranges, 1, left, right, val, <<>>)

----------------------------------------------------------------------------
(* Panel.Layout                                                            *)

\* the state threaded through the recursive build_tree closure: the config
\* list it pops from, slot_bounds, self.slots, the Slot objects created
\* (nodes, in creation order; right/below are indices into nodes, 0 = None)
build_init(cfg) ==
    [config |-> cfg, slot_bounds |-> <<>>, slots |-> <<>>, nodes |-> <<>>,
     err |-> FALSE, ret |-> 0]

\* build_tree taking a missing element for None
RECURSIVE build_tree_mutant(_, _, _)
build_tree_mutant(st, xl, yt) ==
    IF st.err THEN st
    ELSE IF st.config = <<>> THEN [st EXCEPT !.ret = 0]
    ELSE LET slot_config == Head(st.config)
             st0 == [st EXCEPT !.config = Tail(st.config)]
         IN IF slot_config = None THEN [st0 EXCEPT !.ret = 0]
            ELSE LET i == slot_config[1]
                     w == slot_config[2]
                     h == slot_config[3]
                     xr == xl + w
                     yb == yt + h
                     n == Len(st0.nodes) + 1
                     slot == [id |-> i, uxl |-> xl, uxr |-> xr, uyt |-> yt, uyb |-> yb,
                              padding |-> xr < GridUnits, right |-> 0, below |-> 0]
                     st1 == [st0 EXCEPT !.slot_bounds = DictSet(@, i, <<xl, xr, yt, yb>>),
                                        !.nodes = Append(@, slot)]
                     st2 == build_tree_mutant(st1, xr, yt)
                     st3 == build_tree_mutant([st2 EXCEPT !.nodes[n].right = st2.ret], xl, yb)
                 IN IF st2.err THEN st2
                    ELSE IF st3.err THEN st3
                    ELSE [st3 EXCEPT !.nodes[n].below = st3.ret,
                                     !.slots = DictSet(@, i, n),
                                     !.ret = n]

RECURSIVE build_tree(_, _, _)
build_tree(st, xl, yt) ==
    IF st.err THEN st
    ELSE IF st.config = <<>> THEN [st EXCEPT !.err = TRUE]   \* IndexError -> PanelConfigError
    ELSE LET slot_config == Head(st.config)
             st0 == [st EXCEPT !.config = Tail(st.config)]
         IN IF slot_config = None THEN [st0 EXCEPT !.ret = 0]
            ELSE LET i == slot_config[1]
                     w == slot_config[2]
                     h == slot_config[3]
                     xr == xl + w
                     yb == yt + h
                     n == Len(st0.nodes) + 1
                     slot == [id |-> i, uxl |-> xl, uxr |-> xr, uyt |-> yt, uyb |-> yb,
                              padding |-> xr < GridUnits, right |-> 0, below |-> 0]
                     st1 == [st0 EXCEPT !.slot_bounds = DictSet(@, i, <<xl, xr, yt, yb>>),
                                        !.nodes = Append(@, slot)]
                     st2 == build_tree(st1, xr, yt)
                     st3 == build_tree([st2 EXCEPT !.nodes[n].right = st2.ret], xl, yb)
                 IN IF st2.err THEN st2
                    ELSE IF st3.err THEN st3
                    ELSE [st3 EXCEPT !.nodes[n].below = st3.ret,
                                     !.slots = DictSet(@, i, n),
                                     !.ret = n]

\* the two accumulators of sanity_check after every bound was added
RECURSIVE w_checker(_, _)
w_checker(bounds, k) ==
    IF k = 0 THEN LayoutChecker_init
    ELSE LET b == bounds[k][2]
         IN add(w_checker(bounds, k - 1), b[3], b[4], b[2] - b[1])

RECURSIVE h_checker(_, _)
h_checker(bounds, k) ==
    IF k = 0 THEN LayoutChecker_init
    ELSE LET b == bounds[k][2]
         IN add(h_checker(bounds, k - 1), b[1], b[2], b[4] - b[3])

Ok == [kind |-> "ok", what |-> "", l |-> 0, r |-> 0, v |-> 0]
PanelConfigError(what, l, r, v) ==
    [kind |-> "PanelConfigError", what |-> what, l |-> l, r |-> r, v |-> v]
KeyError == [kind |-> "KeyError", what |-> "", l |-> 0, r |-> 0, v |-> 0]

FirstBad(ranges) == CHOOSE k \in 1..Len(ranges) :
    /\ ranges[k][3] # GridUnits
    /\ \A j \in 1..(k - 1) : ranges[j][3] = GridUnits
HasBad(ranges) == \E k \in 1..Len(ranges) : ranges[k][3] # GridUnits

\* Layout.sanity_check(bounds): Ok, or the PanelConfigError it raises
sanity_check(bounds) ==
    LET wr == w_checker(bounds, Len(bounds))
        hr == h_checker(bounds, Len(bounds))
    IN IF HasBad(wr)
       THEN LET R == wr[FirstBad(wr)]
            IN PanelConfigError("height range with width", R[1], R[2], R[3])
       ELSE IF HasBad(hr)
       THEN LET R == hr[FirstBad(hr)]
            IN PanelConfigError("width range with height", R[1], R[2], R[3])
       ELSE Ok

\* sorted(list(coords))
RECURSIVE SortedSeq(_)
SortedSeq(S) ==
    IF S = {} THEN <<>>
    ELSE LET m == CHOOSE x \in S : \A y \in S : x <= y
         IN <<m>> \o SortedSeq(S \ {m})

\* get_reals(coords, unit) with unit = size / 10: the dict reals as a
\* sequence of <<unit coordinate, pixel>>, and whether a lookup raised KeyError
RECURSIVE get_reals_loop(_, _, _, _)
get_reals_loop(coords, size, i, reals) ==
    IF i > Len(coords) - 1 THEN [reals |-> reals, keyerr |-> FALSE]
    ELSE LET ofsa == coords[i - 1]
             ofsb == coords[i]
         IN IF ~DictHas(reals, ofsa) THEN [reals |-> reals, keyerr |-> TRUE]
            ELSE get_reals_loop(coords, size, i + 1,
                     DictSet(reals, ofsb,
                             DictGet(reals, ofsa) + CeilDiv10((ofsb - ofsa) * size)))

\* get_reals with its loop begun at the third coordinate
get_reals_mutant(coords, size) == get_reals_loop(SortedSeq(coords), size, 3, << <<0, 0>> >>)

get_reals(coords, size) == get_reals_loop(SortedSeq(coords), size, 2, << <<0, 0>> >>)

\* Layout.get_real_coords(bounds, width / 10, height / 10)
get_real_coords(bounds, width, height) ==
    LET xs == {bounds[k][2][1] : k \in 1..Len(bounds)} \cup {bounds[k][2][2] : k \in 1..Len(bounds)}
        ys == {bounds[k][2][3] : k \in 1..Len(bounds)} \cup {bounds[k][2][4] : k \in 1..Len(bounds)}
    IN [x |-> get_reals(xs, width), y |-> get_reals(ys, height)]

NoLayout ==
    [status |-> "none", error |-> Ok, slot_bounds |-> <<>>, slots |-> <<>>,
     nodes |-> <<>>, root |-> 0, rest |-> <<>>]

\* Layout.__init__(config, width, height): the object built, or the exception
Layout_init(cfg, width, height) ==
    LET st == build_tree(build_init(cfg), 0, 0)
        built == [NoLayout EXCEPT !.slot_bounds = st.slot_bounds, !.slots = st.slots,
                                  !.nodes = st.nodes, !.root = st.ret, !.rest = st.config]
        check == sanity_check(st.slot_bounds)
        rc == get_real_coords(st.slot_bounds, width, height)
        real_xs == DictSet(DictSet(rc.x.reals, 0, 0 - 1), GridUnits, width + 1)
        real_ys == DictSet(rc.y.reals, GridUnits, height + 1)
        missing == \E k \in 1..Len(st.slots) :
                       LET b == DictGet(st.slot_bounds, st.slots[k][1])
                       IN \/ ~DictHas(real_xs, b[1]) \/ ~DictHas(real_xs, b[2])
                          \/ ~DictHas(real_ys, b[3]) \/ ~DictHas(real_ys, b[4])
        sized == [n \in 1..Len(st.nodes) |->
                     LET i == st.nodes[n].id
                         b == DictGet(st.slot_bounds, i)
                     IN IF DictGet(st.slots, i) = n
                        THEN [id |-> i, uxl |-> st.nodes[n].uxl, uxr |-> st.nodes[n].uxr,
                              uyt |-> st.nodes[n].uyt, uyb |-> st.nodes[n].uyb,
                              padding |-> st.nodes[n].padding,
                              right |-> st.nodes[n].right, below |-> st.nodes[n].below,
                              xl |-> Max(0, DictGet(real_xs, b[1])),
                              width |-> DictGet(real_xs, b[2]) - DictGet(real_xs, b[1]) - 2,
                              yt |-> DictGet(real_ys, b[3]),
                              height |-> DictGet(real_ys, b[4]) - DictGet(real_ys, b[3]) - 1]
                        ELSE [id |-> i, uxl |-> st.nodes[n].uxl, uxr |-> st.nodes[n].uxr,
                              uyt |-> st.nodes[n].uyt, uyb |-> st.nodes[n].uyb,
                              padding |-> st.nodes[n].padding,
                              right |-> st.nodes[n].right, below |-> st.nodes[n].below,
                              xl |-> 0, width |-> 0, yt |-> 0, height |-> 0]]
    IN IF st.err
       THEN [NoLayout EXCEPT !.status = "raised",
                             !.error = PanelConfigError("missing element", 0, 0, 0)]
       ELSE IF check.kind # "ok"
       THEN [built EXCEPT !.status = "raised", !.error = check]
       ELSE IF rc.x.keyerr \/ rc.y.keyerr \/ missing
       THEN [built EXCEPT !.status = "raised", !.error = KeyError]
       ELSE [built EXCEPT !.status = "ok", !.nodes = sized]

----------------------------------------------------------------------------
(* Panel.Slot.render and Panel.render: a line is the sequence of what it   *)
(* is made of, left to right: the index of the node whose pane wrote a     *)
(* piece, DeliH for a horizontal border, DeliV for a vertical one          *)

DeliH == 0
DeliV == 0 - 1

NoDrawn == [op |-> "none", over |-> 0, raised |-> "", root |-> <<>>, printed |-> <<>>]

\* list[i] of Python for an i that may be negative: the 1-based index, 0 if
\* it is out of range
PyAt(s, i) ==
    IF i < 0 THEN (IF 0 - i <= Len(s) THEN Len(s) + i + 1 ELSE 0)
    ELSE (IF i < Len(s) THEN i + 1 ELSE 0)

Drew(content, top_right) == [raised |-> "", content |-> content, top_right |-> top_right]
DrawRaised(kind) == [raised |-> kind, content |-> <<>>, top_right |-> FALSE]

\* the branch `if self.right != None`, r what self.right.render() gave
join_right(content, r) ==
    IF r.raised # "" THEN r
    ELSE IF Len(r.content) < Len(content) THEN DrawRaised("IndexError")
    ELSE Drew([i \in 1..Len(r.content) |->
                  IF i <= Len(content) THEN content[i] \o <<DeliV>> \o r.content[i]
                  ELSE r.content[i]],
              Len(r.content) > Len(content))

\* the else branch of `if not top_right`: the rows of below_content are put
\* before the last rows of content, the one above them gets the border
join_rows(content, below_content, end) ==
    IF PyAt(content, end) = 0 THEN DrawRaised("IndexError")
    ELSE IF \E i \in (end + 1)..(0 - 1) : PyAt(content, i) = 0 \/ PyAt(below_content, i) = 0
    THEN DrawRaised("IndexError")
    ELSE Drew([k \in 1..Len(content) |->
                  IF k = PyAt(content, end) THEN <<DeliH, DeliV>> \o content[k]
                  ELSE IF \E i \in (end + 1)..(0 - 1) : PyAt(content, i) = k
                  THEN below_content[Len(below_content) - (Len(content) - k)]
                           \o <<DeliV>> \o content[k]
                  ELSE content[k]],
              TRUE)

\* the width of the border in the else branch: Panel.style.deli_h(self.below.width)
deli_width(nodes, n) == nodes[nodes[n].below].width

\* the branch `if self.below != None`, a the content so far and b what
\* self.below.render() gave, below the node of self.below
join_below(a, b, below) ==
    IF b.raised # "" THEN b
    ELSE IF ~a.top_right THEN Drew(a.content \o << <<DeliH>> >> \o b.content, FALSE)
    ELSE join_rows(a.content, b.content, (below.height * (0 - 1)) - 1)

\* Slot.render of node n; lens[n] is the number of lines the pane of the
\* node returns, a node that is not the slot of its id holds no pane
RECURSIVE Slot_render(_, _, _, _)
draw_below(nodes, slots, n, lens, a) ==
    IF a.raised # "" \/ nodes[n].below = 0 THEN a
    ELSE join_below(a, Slot_render(nodes, slots, nodes[n].below, lens), nodes[nodes[n].below])

draw_right(nodes, slots, n, lens, content) ==
    IF nodes[n].right = 0 THEN Drew(content, FALSE)
    ELSE join_right(content, Slot_render(nodes, slots, nodes[n].right, lens))

Slot_render(nodes, slots, n, lens) ==
    IF DictGet(slots, nodes[n].id) # n THEN DrawRaised("PanelError")
    ELSE draw_below(nodes, slots, n, lens,
                    draw_right(nodes, slots, n, lens, [i \in 1..lens[n] |-> <<n>>]))

\* Panel.render after refresh_layout: the root is rendered, one border line
\* is appended, the lines are printed
print_root(r, over) ==
    [op |-> "render", over |-> over, raised |-> r.raised, root |-> r.content,
     printed |-> IF r.raised # "" THEN <<>> ELSE Append(r.content, <<DeliH>>)]

Panel_print(self_layout, lens, over) ==
    print_root(Slot_render(self_layout.nodes, self_layout.slots, self_layout.root, lens), over)

\* what Pane.render returns for each node: height lines, height + 1 for
\* the node `over`
PaneLines(nodes, over) ==
    [n \in 1..Len(nodes) |-> IF n = over THEN nodes[n].height + 1 ELSE nodes[n].height]

----------------------------------------------------------------------------
(* The slots configs the layout is built from                              *)

MaxSlots == 3                 \* slots of an enumerated config
Dims == {4, 6, 10}            \* unit widths/heights of an enumerated config
UnitValues == 1..GridUnits    \* widths/heights check_layout_config lets through
TermSizes == {<<80, 24>>, <<97, 31>>}
LayoutTerms == TermSizes \cup {<<80, 6>>}     \* with a terminal of 4 content rows
DefaultTerm == <<80, 24>>

\* Panel.config['layout']['slots']
DefaultSlots ==
    << <<0, 6, 8>>, <<1, 4, 6>>, None, <<2, 4, 4>>, None, None, <<3, 6, 2>>, None, None >>

\* unique ids, every slot inside the grid
Pinwheel8 ==
    << <<0, 2, 5>>, <<1, 3, 2>>, <<2, 2, 2>>, <<3, 3, 5>>, None, None, <<4, 5, 5>>, None, None,
       None, <<5, 2, 2>>, <<6, 3, 5>>, None, None, <<7, 7, 3>>, None, None >>

\* unique ids, slots 4 and 6 reach outside the grid
OffGrid7 ==
    << <<0, 3, 6>>, <<1, 3, 3>>, <<2, 4, 3>>, None, <<3, 4, 7>>, <<4, 3, 3>>, None, None, None,
       None, <<5, 3, 4>>, <<6, 3, 7>>, None, None, None >>

\* id 3 used by two slots
Dup5 ==
    << <<0, 5, 5>>, <<1, 5, 5>>, None, <<3, 5, 5>>, None, None, <<2, 5, 5>>, <<3, 5, 5>>, None,
       None, None >>

\* id 4 used by a slot (2 high, right of slot 3) and by the slot below it
DupBelow6 ==
    << <<0, 5, 5>>, <<1, 5, 5>>, None, <<2, 5, 2>>, None, None, <<3, 5, 5>>, <<4, 5, 2>>, None,
       <<4, 5, 3>>, None, None, None >>

\* unique ids: slot 0 with a taller slot 1 on its right, and below it slot 2
\* with slot 3 below
BelowStack4 ==
    << <<0, 6, 5>>, <<1, 4, 10>>, None, None, <<2, 6, 2>>, None, <<3, 6, 3>>, None, None >>

\* the same with slot 3 on the right of slot 2
BelowPair4 ==
    << <<0, 6, 5>>, <<1, 4, 10>>, None, None, <<2, 3, 5>>, <<3, 3, 5>>, None, None, None >>

NamedConfigs == {DefaultSlots, Pinwheel8, OffGrid7, Dup5, DupBelow6, BelowStack4, BelowPair4}

NumSlots(cfg) == Cardinality({q \in 1..Len(cfg) : cfg[q] # None})

\* branches of the pre-order encoding still to be written: 1 for the root,
\* 2 more for every slot, 1 less for every element
Open(cfg) == 1 + 2 * NumSlots(cfg) - Len(cfg)

\* one width or height of a config replaced
Perturbed(cfg) ==
    {[cfg EXCEPT ![p][f] = v] :
        p \in {q \in 1..Len(cfg) : cfg[q] # None}, f \in {2, 3}, v \in UnitValues}

\* the last element missing
Truncated(cfg) == SubSeq(cfg, 1, Len(cfg) - 1)

SeedConfigs ==
    {<<>>} \cup NamedConfigs
    \cup UNION {Perturbed(c) : c \in NamedConfigs}
    \cup {Truncated(c) : c \in NamedConfigs}

----------------------------------------------------------------------------
(* Strings: a str is a sequence of one-character strings, ESC stands for   *)
(* the character '\x1b'                                                    *)

ESC == "ESC"

Spaces(n) == [i \in 1..n |-> " "]

Digit == <<"0", "1", "2", "3", "4", "5", "6", "7", "8", "9">>

\* str(n) / f'{n}' for an integer n >= 0
RECURSIVE str(_)
str(n) == IF n < 10 THEN <<Digit[n + 1]>> ELSE str(n \div 10) \o <<Digit[(n % 10) + 1]>>

\* f'{s:>w}' and f'{s:<w}': pads, never cuts
rjust(s, w) == Spaces(Max(0, w - Len(s))) \o s
ljust(s, w) == s \o Spaces(Max(0, w - Len(s)))

\* s[a:b] of Python, a and b 0-based and possibly negative or beyond the end
PySlice(s, a, b) ==
    LET norm(k) == IF k < 0 THEN Max(0, Len(s) + k) ELSE Min(k, Len(s))
    IN SubSeq(s, norm(a) + 1, norm(b))

\* the least index i >= from at which pat occurs in s, 0 if there is none
Find(s, pat, from) ==
    LET hits == {i \in from..(Len(s) - Len(pat) + 1) : SubSeq(s, i, i + Len(pat) - 1) = pat}
    IN IF hits = {} THEN 0 ELSE CHOOSE i \in hits : \A j \in hits : i <= j

RECURSIVE Concat(_)
Concat(ss) == IF ss = <<>> THEN <<>> ELSE Head(ss) \o Concat(Tail(ss))

----------------------------------------------------------------------------
(* Panel.Style: a wrapper 'pre{}suf' is the pair <<pre, suf>>, and         *)
(* wrapper.format(s) is pre \o s \o suf                                    *)

filename_color == 35
function_color == 214
abnormal_frame_color == 20
disabled_breakpoint == 9

ansi_wrapper(code) == << <<ESC, "[">> \o str(code) \o <<"m">>, <<ESC, "[", "m">> >>

ansi_color_wrapper(code) ==
    << <<ESC, "[", "3", "8", ";", "5", ";">> \o str(code) \o <<"m">>, <<ESC, "[", "m">> >>

bp_disabled_wrapper == ansi_wrapper(disabled_breakpoint)
filename_wrapper == ansi_color_wrapper(filename_color)
function_wrapper == ansi_color_wrapper(function_color)
abnormal_frame_wrapper == ansi_color_wrapper(abnormal_frame_color)

\* '/'.join(filename.split('/')[-2:])
strip_filename(filename) ==
    LET slashes == {i \in 1..Len(filename) : filename[i] = "/"}
        last == CHOOSE i \in slashes : \A j \in slashes : j <= i
        before == slashes \ {last}
        prev == CHOOSE i \in before : \A j \in before : j <= i
    IN IF Cardinality(slashes) < 2 THEN filename
       ELSE SubSeq(filename, prev + 1, Len(filename))

----------------------------------------------------------------------------
(* Panel.ANSIstr: seq is the list of runs <<counter, raw, wrapping>>,      *)
(* wrapping None or a wrapper; fix is the list of staged <<prefix,suffix>> *)

NoMatch == [first |-> 0, start1 |-> 0, end1 |-> 0, end |-> 0]

\* the match of \x1b\[38.+?m(.+?)\x1b\[39.*?m that starts at index i: the
\* first 'm' after at least one character, then the first ESC[39 after at
\* least one character, then the first 'm' (first..end is the whole match,
\* start1..end1 is group 1, all 1-based and inclusive)
re_match_at(encoded, i) ==
    LET p1 == IF i + 3 <= Len(encoded) /\ SubSeq(encoded, i, i + 3) = <<ESC, "[", "3", "8">>
              THEN Find(encoded, <<"m">>, i + 5) ELSE 0
        p2 == IF p1 = 0 THEN 0 ELSE Find(encoded, <<ESC, "[", "3", "9">>, p1 + 2)
        p3 == IF p2 = 0 THEN 0 ELSE Find(encoded, <<"m">>, p2 + 4)
    IN IF p3 = 0 THEN NoMatch
       ELSE [first |-> i, start1 |-> p1 + 1, end1 |-> p2 - 1, end |-> p3]

\* the next match re.finditer yields, searching from index pos
re_search(encoded, pos) ==
    LET starts == {i \in pos..Len(encoded) : re_match_at(encoded, i) # NoMatch}
    IN IF starts = {} THEN NoMatch
       ELSE re_match_at(encoded, CHOOSE i \in starts : \A j \in starts : i <= j)

\* the loop of decode and the code after it; pos is prev_end + 1
RECURSIVE decode_loop(_, _, _, _)
decode_loop(encoded, pos, raw_len, runs) ==
    LET m == re_search(encoded, pos)
    IN IF m = NoMatch
       THEN IF pos - 1 # Len(encoded)
            THEN LET raw_str == SubSeq(encoded, pos, Len(encoded))
                 IN Append(runs, <<raw_len + Len(raw_str), raw_str, None>>)
            ELSE runs
       ELSE LET pure_len == IF m.first # pos THEN raw_len + (m.first - pos) ELSE raw_len
                with_pure == IF m.first # pos
                             THEN Append(runs, <<pure_len, SubSeq(encoded, pos, m.first - 1), None>>)
                             ELSE runs
                wrapping_pre == SubSeq(encoded, m.first, m.start1 - 1)
                raw_str == SubSeq(encoded, m.start1, m.end1)
                wrapping_suf == SubSeq(encoded, m.end1 + 1, m.end)
                new_len == pure_len + Len(raw_str)
            IN decode_loop(encoded, m.end + 1, new_len,
                           Append(with_pure, <<new_len, raw_str, <<wrapping_pre, wrapping_suf>> >>))

decode(encoded) == decode_loop(encoded, 1, 0, <<>>)

\* Panel.ANSIstr() and Panel.ANSIstr(encoded)
ANSIstr_new == [seq |-> <<>>, fix |-> <<>>]
ANSIstr_init(encoded) == [seq |-> decode(encoded), fix |-> <<>>]

style_underline(self) ==
    [self EXCEPT !.fix = Append(self.fix, << <<ESC, "[", "4", "m">>, <<ESC, "[", "m">> >>)]

\* printf(seq): an empty (or no) argument prints the line's own runs
RECURSIVE printf_loop(_)
printf_loop(runs) ==
    IF runs = <<>> THEN <<>>
    ELSE LET i == Head(runs)
         IN (IF i[3] = None THEN i[2] ELSE i[3][1] \o i[2] \o i[3][2]) \o printf_loop(Tail(runs))

printf(self_seq, runs) == printf_loop(IF runs = <<>> THEN self_seq ELSE runs)

\* the index the for loop of truncate stops at: the first run whose counter
\* is >= length, the last run if the loop ends without break
truncate_index(self_seq, length) ==
    LET reached == {k \in 1..Len(self_seq) : self_seq[k][1] >= length}
    IN IF reached = {} THEN Len(self_seq)
       ELSE CHOOSE k \in reached : \A j \in reached : k <= j

\* the cut run loses its suffix
truncate_mutant(self_seq, length) ==
    LET i == truncate_index(self_seq, length)
        last == self_seq[i]
        offset == length - (last[1] - Len(last[2]))
        new_raw == PySlice(last[2], 0, offset)
    IN printf_loop(SubSeq(self_seq, 1, i - 1))
           \o (IF last[3] = None THEN new_raw ELSE last[3][1] \o new_raw)

truncate(self_seq, length) ==
    LET i == truncate_index(self_seq, length)
        last == self_seq[i]
        offset == length - (last[1] - Len(last[2]))
        new_raw == PySlice(last[2], 0, offset)
    IN printf(self_seq, Append(SubSeq(self_seq, 1, i - 1), <<length, new_raw, last[3]>>))

RECURSIVE decorate(_, _)
decorate(ln, staged) ==
    IF staged = <<>> THEN ln
    ELSE decorate(Head(staged)[1] \o ln \o Head(staged)[2], Tail(staged))

\* the string match builds before the one-time decoration
fit(self_seq, width, padding) ==
    LET diff == width - self_seq[Len(self_seq)][1]
    IN IF diff < 0 THEN truncate(self_seq, width)
       ELSE IF diff > 0 /\ padding THEN printf(self_seq, <<>>) \o Spaces(diff)
       ELSE printf(self_seq, <<>>)

\* the staged decoration survives the call
match_mutant(self, width, padding) ==
    IF self.seq = <<>>
    THEN [raised |-> "IndexError", ret |-> <<>>, self |-> self]
    ELSE [raised |-> "",
          ret |-> decorate(fit(self.seq, width, padding), self.fix),
          self |-> self]

\* match: what it returns (or raises) and the line it leaves
match(self, width, padding) ==
    IF self.seq = <<>>
    THEN [raised |-> "IndexError", ret |-> <<>>, self |-> self]
    ELSE [raised |-> "",
          ret |-> decorate(fit(self.seq, width, padding), self.fix),
          self |-> [self EXCEPT !.fix = <<>>]]

\* Pane.match_pure_str
match_pure_str(ln, width, padding) ==
    LET diff == width - Len(ln)
    IN IF diff < 0 THEN PySlice(ln, 0, width)
       ELSE IF diff > 0 /\ padding THEN ln \o Spaces(diff)
       ELSE ln

----------------------------------------------------------------------------
(* The lines of the Stack and Breakpoints panes                            *)

\* an entry of Console.refresh_stack(): a str for a dummy or signal frame,
\* [level, filename, line, function] otherwise
GdbFunctionCall ==
    <<"<", "G", "d", "b", " ", "F", "u", "n", "c", "t", "i", "o", "n", " ", "C", "a", "l", "l", ">">>

\* the body of the loop of Stack.refresh_content: the line of one frame
stack_line(f) ==
    IF f.isstr
    THEN [seq |-> << <<Len(f.text), f.text, abnormal_frame_wrapper>> >>, fix |-> <<>>]
    ELSE LET head == rjust(str(f.level), 2) \o <<" ">>
             filename == strip_filename(f.filename)
             line_part == <<":">> \o str(f.line_num) \o <<" ", "i", "n", " ">>
             l1 == 3
             l2 == l1 + Len(filename)
             l3 == l2 + Len(line_part)
             l4 == l3 + Len(f.function)
         IN [seq |-> << <<l1, head, None>>, <<l2, filename, filename_wrapper>>,
                        <<l3, line_part, None>>, <<l4, f.function, function_wrapper>> >>,
             fix |-> <<>>]

\* Breakpoints.init_break_line; the last run has no text yet (None)
init_break_line(bp) ==
    LET head == rjust(str(bp.number), 3) \o <<" ", "b", "r", "e", "a", "k", " ">>
        filename == strip_filename(bp.filename)
        line_num == <<":">> \o str(bp.line_num) \o <<" ">>
        l1 == 10
        l2 == l1 + Len(filename)
        l3 == l2 + Len(line_num)
        l4 == l3 + 3
        l5 == l4 + Len(bp.function)
        l6 == l5 + 3
        l7 == IF bp.condition # <<>> THEN l6 + (Len(bp.condition) + 6) ELSE l6
        runs == << <<l1, head, None>>, <<l2, filename, filename_wrapper>>,
                   <<l3, line_num, None>>, <<l4, <<"i", "n", " ">>, None>>,
                   <<l5, bp.function, function_wrapper>>, <<l6, <<"(", ")", " ">>, None>> >>
        cond == IF bp.condition # <<>>
                THEN << <<l7, <<"[", "i", "f", " ">> \o bp.condition \o <<"]", " ">>, None>> >>
                ELSE <<>>
    IN [seq |-> runs \o cond \o << <<l7 + 12, None, None>> >>, fix |-> <<>>]

\* Breakpoints.update_bp_line on an ANSIstr line
update_bp_line(bp, ln) ==
    LET hit == <<"h", "i", "t", " ">> \o rjust(str(bp.hit_count), 2) \o <<" ", "t", "i", "m", "e", "s">>
        staged == IF ~bp.enabled THEN Append(ln.fix, bp_disabled_wrapper) ELSE ln.fix
    IN [seq |-> [ln.seq EXCEPT ![Len(ln.seq)][2] = hit], fix |-> staged]
----------------------------------------------------------------------------
(* The lines a pane hands to match                                         *)

MaxFrags == 3                 \* pieces of an encoded source line
MaxStaged == 2                \* decorations staged on a line at a time
MaxWidth == 12                \* widest of the narrow slots a line is fitted to

\* pieces of a highlighted source line: plain text, and text in the colour
\* escapes the formatter writes (ESC[38;5;Nm ... ESC[39m or ESC[39;00m)
Fragments ==
    { <<" ", " ", "1", "2", " ">>,
      <<ESC, "[", "3", "8", ";", "5", ";", "2", "1", "4", "m", "f", "o", "o", "(", ")",
        ESC, "[", "3", "9", "m">>,
      <<ESC, "[", "3", "8", ";", "5", ";", "8", "1", ";", "0", "1", "m", "i", "f",
        ESC, "[", "3", "9", ";", "0", "0", "m">>,
      <<"m", "[", "3", "9">> }

Encoded == {Concat(fs) : fs \in UNION {[1..n -> Fragments] : n \in 0..MaxFrags}}

SourceFile == <<"/", "w", "/", "s", "/", "a", ".", "c">>

Frames ==
    {[isstr |-> TRUE, text |-> GdbFunctionCall, level |-> 0, filename |-> <<>>,
      line_num |-> 0, function |-> <<>>]}
    \cup {[isstr |-> FALSE, text |-> <<>>, level |-> l, filename |-> SourceFile,
           line_num |-> 7, function |-> <<"f">>] : l \in {0, 12, 100}}

HitCounts == {0, 7, 100}

NoBp ==
    [number |-> 0, filename |-> <<>>, line_num |-> 0, function |-> <<>>,
     condition |-> <<>>, hit_count |-> 0, enabled |-> TRUE]

Bps ==
    {[number |-> 1, filename |-> SourceFile, line_num |-> 7, function |-> <<"f">>,
      condition |-> c, hit_count |-> h, enabled |-> e] :
        c \in {<<>>, <<"x">>}, h \in HitCounts, e \in BOOLEAN}

NoSrc == [kind |-> "none", encoded |-> <<>>, bp |-> NoBp]

NoCall ==
    [op |-> "new", width |-> 0, padding |-> FALSE, staged |-> <<>>, before |-> <<>>,
     ret |-> <<>>, raised |-> ""]
----------------------------------------------------------------------------
(* More of Python's str and list                                           *)

\* s[i] of Python, i 0-based, negative from the end
PyIndex(s, i) == IF i < 0 THEN s[Len(s) + i + 1] ELSE s[i + 1]

\* s.replace(old, new)
RECURSIVE Replace(_, _, _)
Replace(s, old, new) ==
    LET at == Find(s, old, 1)
    IN IF at = 0 THEN s
       ELSE SubSeq(s, 1, at - 1) \o new \o Replace(SubSeq(s, at + Len(old), Len(s)), old, new)

----------------------------------------------------------------------------
(* Console: the session flags, the event handlers, the logger's ring       *)

\* Console.reset_flags; objfile_build_time is TRUE for a time, FALSE for None
reset_flags(has_objfile) ==
    [bp_hit |-> FALSE, bp_create |-> FALSE, objfile_build_time |-> has_objfile,
     sal_outdated |-> FALSE, bps |-> <<>>, bp_change |-> FALSE, history_count |-> 0,
     refresh_watch_val |-> FALSE, logging |-> FALSE, inferior_running |-> FALSE]

stop_handler(self, is_breakpoint_event) ==
    [self EXCEPT !.inferior_running = FALSE,
                 !.sal_outdated = TRUE,
                 !.refresh_watch_val = TRUE,
                 !.bp_hit = IF is_breakpoint_event THEN TRUE ELSE @]

\* console.bps holds the gdb.Breakpoint objects: here their numbers, the
\* attributes of the live objects are looked up in the debugger's table
breakpoint_created_handler(self, bp) ==
    [self EXCEPT !.bp_create = IF bp.location THEN TRUE ELSE @,
                 !.bp_change = TRUE,
                 !.bps = Append(@, bp.number)]

\* bps.sort(key=lambda i: i == bp) is stable: the others in order, then bp;
\* bps.pop() drops the last, and raises IndexError on an empty list
breakpoint_deleted_handler(self, number) ==
    LET Other(i) == i # number
        Same(i) == i = number
        sorted == SelectSeq(self.bps, Other) \o SelectSeq(self.bps, Same)
    IN IF self.bps = <<>> THEN self
       ELSE [self EXCEPT !.bps = SubSeq(sorted, 1, Len(sorted) - 1), !.bp_change = TRUE]

\* Console.start and Console.end: reset_flags, then the handlers are
\* connected or disconnected
Console_start(has_objfile) == reset_flags(has_objfile)
Console_end(has_objfile) == reset_flags(has_objfile)

\* get_last_cmd_val: cmd is the last line of 'show commands' after its
\* number, count and value gdb.history_count() and gdb.history(0)
get_last_cmd_val(self, cmd, count, value) ==
    [console |-> [self EXCEPT !.sal_outdated = IF cmd[1] \in {"f", "t"} THEN TRUE ELSE @,
                              !.history_count = count],
     count |-> count,
     cmd |-> cmd,
     val |-> IF count > self.history_count THEN value ELSE None]

LogSize == 500
LastLog == 499

\* Logger.__init__: logs and cursor
Logger_init == [logs |-> [i \in 1..LogSize |-> <<"~">>], cursor |-> 0]

\* the loop of Logger.redirect over log.split('\n')
RECURSIVE redirect(_, _)
redirect(self, lines) ==
    IF lines = <<>> THEN self
    ELSE redirect([logs |-> [self.logs EXCEPT ![self.cursor + 1] =
                                 Replace(Head(lines), <<"\t">>, Spaces(4))],
                   cursor |-> IF self.cursor = LastLog THEN 0 ELSE self.cursor + 1],
                  Tail(lines))

----------------------------------------------------------------------------
(* The panes. A raw line of refresh_content is a Panel.ANSIstr (isansi,    *)
(* obj) or a str (text). Every refresh_content below gives the raw lines,  *)
(* the pane (self) and the console as it leaves them, and the pane as it   *)
(* is once Pane.render has fitted the raw lines (after).                   *)

AnsiLine(obj) == [isansi |-> TRUE, obj |-> obj, text |-> <<>>]
StrLine(text) == [isansi |-> FALSE, obj |-> ANSIstr_new, text |-> text]

\* the fields of the six pane classes (__init__), those of the other
\* classes left at their defaults
Pane_new(cls) ==
    [cls |-> cls, content |-> <<>>, bp_lines |-> <<>>, expressions |-> <<>>, cnv |-> <<>>,
     curr_line_num |-> 0, frame_line_num |-> 0, file |-> None, cache |-> <<>>,
     warning |-> None]

Refreshed(raw, self, after, con, raised) ==
    [raw |-> raw, self |-> self, after |-> after, console |-> con, raised |-> raised]

\* Pane.shrink_value_string; v.lines is v.format_string() split at '\n',
\* v.is_list whether the type tag is a std::list, v.size what
\* ListSizeWorker_call_ counts
shrink_value_string(v) ==
    LET head == Spaces(4)
        rep == IF v.is_list
               THEN <<" ", "w", "i", "t", "h", " ">> \o str(v.size) \o <<" ", "e", "l", "e", "m", "e", "n", "t">>
                        \o (IF v.size > 1 THEN <<"s">> ELSE <<>>) \o <<" ", ":">>
               ELSE <<" ", ":">>
        NotBrace(l) == l # <<"}">>
        more == SelectSeq(PySlice(v.lines, 1, 4), NotBrace)
        sstr == << head \o Replace(v.lines[1], <<" ", "=", " ", "{">>, rep) >>
                    \o [k \in 1..Len(more) |-> head \o more[k]]
        last == sstr[Len(sstr)]
    IN IF Len(v.lines) = 1 THEN << head \o v.lines[1] >>
       ELSE IF last[Len(last)] = ","
       THEN [sstr EXCEPT ![Len(sstr)] = PySlice(last, 0, 0 - 1) \o <<" ", ".", ".", ".">>]
       ELSE sstr

\* ---- Stack ----

OSSignalHandler == <<"<", "O", "S", " ", "S", "i", "g", "n", "a", "l", " ", "H", "a",
          "n", "d", "l", "e", "r", ">">>

StrFrame(text) ==
    [isstr |-> TRUE, text |-> text, level |-> 0, filename |-> <<>>, line_num |-> 0,
     function |-> <<>>]

\* Console.refresh_stack over the frames from the selected one outwards
refresh_stack(frames) ==
    Concat([k \in 1..Len(frames) |->
               IF frames[k].type = "DUMMY_FRAME" THEN <<StrFrame(GdbFunctionCall)>>
               ELSE IF frames[k].type = "SIGTRAMP_FRAME" THEN <<StrFrame(OSSignalHandler)>>
               ELSE IF frames[k].symtab
               THEN << [isstr |-> FALSE, text |-> <<>>, level |-> frames[k].level,
                        filename |-> frames[k].filename, line_num |-> frames[k].line,
                        function |-> frames[k].name] >>
               ELSE <<>>])

Stack_content(content, self, con) ==
    Refreshed(content, [self EXCEPT !.content = content], [self EXCEPT !.content = content],
              con, "")

\* gdb.selected_frame() raises gdb.error when there is no frame, after
\* self.content was emptied
Stack_refresh_content(self, con, frames) ==
    IF ~con.sal_outdated THEN Refreshed(self.content, self, self, con, "")
    ELSE IF frames = <<>>
    THEN Refreshed(<<>>, [self EXCEPT !.content = <<>>], [self EXCEPT !.content = <<>>],
                   con, "gdb.error")
    ELSE Stack_content([k \in 1..Len(refresh_stack(frames)) |->
                           AnsiLine(stack_line(refresh_stack(frames)[k]))], self, con)

\* ---- Breakpoints ----

init_bp_line(bp) ==
    IF ~bp.location
    THEN StrLine(rjust(str(bp.number), 3) \o <<" ", "w", "a", "t", "c", "h", " ", "\"">> \o bp.expression
                     \o <<"\"", " ", "h", "i", "t", " ", "{", "}", " ", "t",
                           "i", "m", "e", "s">>)
    ELSE AnsiLine(init_break_line(bp))

\* the second loop of update_bps over console.bps
RECURSIVE init_missing(_, _, _)
init_missing(bp_lines, numbers, bps) ==
    IF numbers = <<>> THEN bp_lines
    ELSE init_missing(IF DictHas(bp_lines, Head(numbers)) THEN bp_lines
                      ELSE Append(bp_lines, <<Head(numbers), init_bp_line(DictGet(bps, Head(numbers)))>>),
                      Tail(numbers), bps)

update_bps(self, con, bps) ==
    LET Tracked(item) == \E i \in 1..Len(con.bps) : con.bps[i] = item[1]
    IN IF ~con.bp_change THEN [self |-> self, console |-> con]
       ELSE [self |-> [self EXCEPT !.bp_lines =
                          init_missing(SelectSeq(self.bp_lines, Tracked), con.bps, bps)],
             console |-> [con EXCEPT !.bp_change = FALSE]]

\* update_bp_line on a python string
update_bp_line_str(bp, text) ==
    LET wrapped == IF ~bp.enabled
                   THEN bp_disabled_wrapper[1] \o text \o bp_disabled_wrapper[2]
                   ELSE text
    IN Replace(wrapped, <<"{", "}">>, str(bp.hit_count))

\* the loop of refresh_content over self.bp_lines, u what update_bps left
Breakpoints_content(u, bps) ==
    LET items == u.self.bp_lines
        updated(k) ==
            IF items[k][2].isansi
            THEN AnsiLine(update_bp_line(DictGet(bps, items[k][1]), items[k][2].obj))
            ELSE StrLine(update_bp_line_str(DictGet(bps, items[k][1]), items[k][2].text))
        fitted(l) == IF l.isansi THEN AnsiLine([l.obj EXCEPT !.fix = <<>>]) ELSE l
        keep(k, l) == IF items[k][2].isansi THEN <<items[k][1], l>> ELSE items[k]
    IN Refreshed([k \in 1..Len(items) |-> updated(k)],
                 [u.self EXCEPT !.bp_lines = [k \in 1..Len(items) |-> keep(k, updated(k))]],
                 [u.self EXCEPT !.bp_lines =
                     [k \in 1..Len(items) |-> keep(k, fitted(updated(k)))]],
                 u.console, "")

Breakpoints_refresh_content(self, con, bps) ==
    Breakpoints_content(update_bps(self, con, bps), bps)

\* ---- Watch ----

\* return self.content[:height]
Watch_content(content, self, con, height) ==
    Refreshed([k \in 1..Len(PySlice(content, 0, height)) |->
                  StrLine(PySlice(content, 0, height)[k])],
              [self EXCEPT !.content = content], [self EXCEPT !.content = content], con, "")

Watch_refresh_content(self, con, values, height) ==
    LET e(i) == self.expressions[i]
    IN IF ~con.refresh_watch_val THEN Watch_content(self.content, self, con, height)
       ELSE Watch_content(
                Concat([i \in 1..Len(self.expressions) |->
                    << ljust(str(i - 1), 3) \o <<" ">> \o e(i) \o <<" ", ":">> >>
                    \o (IF DictHas(values, e(i))
                        THEN shrink_value_string(DictGet(values, e(i)))
                        ELSE << <<" ", " ", " ", " ", "N", "o", " ", "s", "y",
                              "m", "b", "o", "l", " ", "\"">> \o e(i) \o <<"\"", " ", "i", "n", " ", "c", "u", "r", "r",
                              "e", "n", "t", " ", "c", "o", "n", "t", "e",
                              "x", "t", ".">> >>)]),
                self, con, height)

\* ---- ValueHistory ----

is_print_cmd(cmd) ==
    \/ PySlice(cmd, 0, 2) = <<"p", " ">>
    \/ PySlice(cmd, 0, 3) = <<"p", "p", " ">>
    \/ PySlice(cmd, 0, 6) = <<"p", "r", "i", "n", "t", " ">>
    \/ PySlice(cmd, 0, 12) = <<"p", "a", "n", "e", "l", " ", "p", "r", "i", "n", "t", " ">>

\* value is None (the empty tuple) or a value
record_cmd_value(self, idx, cmd, value) ==
    IF ~is_print_cmd(cmd) \/ value = None THEN self
    ELSE [self EXCEPT !.cnv = Append(@, ljust(str(idx), 3) \o <<" ">> \o cmd)
                                  \o shrink_value_string(value)]

ValueHistory_refresh_content(self, con, height) ==
    LET first == Len(self.cnv) - height
        content == IF first > 0 THEN PySlice(self.cnv, first, Len(self.cnv)) ELSE self.cnv
    IN Refreshed([k \in 1..Len(content) |-> StrLine(content[k])], self, self, con, "")

\* ---- Log ----

Log_refresh_content(self, con, lg, height) ==
    LET cursor == lg.cursor
        logs == lg.logs
        first == IF PyIndex(logs, cursor - height) = <<"~">> THEN 0 ELSE cursor - height
        content == IF first = cursor THEN <<>>
                   ELSE IF first < 0 THEN PySlice(logs, first, Len(logs)) \o PySlice(logs, 0, cursor)
                   ELSE PySlice(logs, first, cursor)
    IN IF ~con.logging
       THEN Refreshed(<< StrLine(<<"P", "a", "n", "e", "l", " ", "l", "o", "g", "g", "e", "r", " ",
             "i", "s", " ", "n", "o", "t", " ", "e", "n", "a", "b", "l", "e",
             "d", ".">>) >>, self, self, con, "")
       ELSE Refreshed([k \in 1..Len(content) |-> StrLine(content[k])], self, self, con, "")

\* ---- Source ----

\* frames is the stack from the selected frame outwards (none: no frame
\* selected), bps the debugger's breakpoints; console.bps[-1] raises on an
\* empty list and locations[0] on a watchpoint, which has no location
get_file_line(self, con, frames, bps) ==
    IF con.bp_create
    THEN LET cleared == [con EXCEPT !.bp_create = FALSE]
             loc == DictGet(bps, con.bps[Len(con.bps)])
         IN IF con.bps = <<>> \/ ~loc.location
            THEN [raised |-> "IndexError", filename |-> None, center_idx |-> 0,
                  self |-> self, console |-> cleared]
            ELSE [raised |-> "", filename |-> loc.filename, center_idx |-> loc.line_num - 1,
                  self |-> self, console |-> cleared]
    ELSE LET new == IF ~con.sal_outdated THEN self
                    ELSE IF frames = <<>> THEN [self EXCEPT !.file = None]
                    ELSE IF ~frames[1].symtab
                    THEN [self EXCEPT !.curr_line_num = frames[1].line,
                                      !.frame_line_num = frames[1].line,
                                      !.file = None]
                    ELSE [self EXCEPT !.curr_line_num = frames[1].line,
                                      !.frame_line_num = frames[1].line,
                                      !.file = frames[1].filename]
         IN [raised |-> "", filename |-> new.file, center_idx |-> new.curr_line_num - 1,
             self |-> new, console |-> con]

\* cache_file: ok is what it returns; a file is [readable, edited, source],
\* edited whether its mtime is after the build, source the lines of
\* pygments.highlight(...).strip().split('\n')
cache_file(self, con, files, filename) ==
    IF ~DictHas(files, filename) \/ ~DictGet(files, filename).readable
    THEN [ok |-> FALSE, self |-> self]
    ELSE LET file == DictGet(files, filename)
             lines == [idx \in 1..Len(file.source) |->
                          ANSIstr_init(rjust(str(idx), 5) \o <<" ">>
                                       \o Replace(file.source[idx], <<"\t">>, Spaces(4)))]
         IN [ok |-> TRUE,
             self |-> [self EXCEPT
                          !.warning = IF con.objfile_build_time /\ file.edited
                                      THEN <<"W", "a", "r", "n", "i", "n",
                                            "g", ":", " ", "s", "o", "u",
                                            "r", "c", "e", " ", "f", "i",
                                            "l", "e", " ">> \o filename
                                               \o <<" ", "e", "d", "i", "t",
                                                     "e", "d", " ", "a", "f",
                                                     "t", "e", "r", " ", "b",
                                                     "u", "i", "l", "d", ".",
                                                     "\n">>
                                      ELSE @,
                          !.cache = DictSet(@, filename, lines)]]

\* the window of refresh_content once the file is cached: s is the pane,
\* center the 0-based index of the centre line
Source_window(s, con, file, center, height) ==
    LET h == IF s.warning # None THEN height - 1 ELSE height
        half == (h - 1) \div 2
        first == Max(0, center - half)
        last == center + half + (2 - (h % 2))
        lines == DictGet(s.cache, file)
        at == IF center < 0 THEN Len(lines) + center + 1 ELSE center + 1
        staged == [lines EXCEPT ![at] = style_underline(@)]
        content == PySlice(staged, first, last)
        shown == {k \in 1..Len(lines) : \E j \in 1..Len(content) : k = first + j}
        fitted == [k \in 1..Len(lines) |->
                      IF k \in shown THEN [staged[k] EXCEPT !.fix = <<>>] ELSE staged[k]]
        raw == (IF s.warning # None THEN <<StrLine(s.warning)>> ELSE <<>>)
                   \o [k \in 1..Len(content) |-> AnsiLine(content[k])]
    IN IF at < 1 \/ at > Len(lines)
       THEN Refreshed(<<>>, s, s, con, "IndexError")
       ELSE Refreshed(raw,
                      [s EXCEPT !.cache = DictSet(@, file, staged), !.warning = None],
                      [s EXCEPT !.cache = DictSet(@, file, fitted), !.warning = None],
                      con, "")

\* refresh_content after `file not in self.cache`: c is what cache_file gave
Source_cached(c, con, file, center, height) ==
    IF ~c.ok
    THEN Refreshed(<< StrLine(<<"C", "a", "n", "n", "o", "t", " ", "o", "p", "e", "n", " ", "f",
          "i", "l", "e", ":", " ">> \o file \o <<".">>) >>,
                   c.self, c.self, con, "")
    ELSE Source_window(c.self, con, file, center, height)

\* refresh_content after get_file_line gave g
Source_located(g, files, height) ==
    IF g.raised # ""
    THEN Refreshed(<<>>, g.self, g.self, g.console, g.raised)
    ELSE IF g.filename = None
    THEN Refreshed(<< StrLine(<<"N", "o", " ", "s", "o", "u", "r", "c", "e", " ", "f", "i", "l",
          "e", "/", "l", "i", "n", "e", " ", "f", "o", "u", "n", "d", " ",
          "i", "n", " ", "c", "u", "r", "r", "e", "n", "t", " ", "f", "r",
          "a", "m", "e", ".">>) >>,
                   g.self, g.self, g.console, "")
    ELSE IF DictHas(g.self.cache, g.filename)
    THEN Source_window(g.self, g.console, g.filename, g.center_idx, height)
    ELSE Source_cached(cache_file(g.self, g.console, files, g.filename), g.console,
                       g.filename, g.center_idx, height)

Source_refresh_content(self, con, frames, bps, files, height) ==
    Source_located(get_file_line(self, con, frames, bps), files, height)

\* ---- Pane.render ----

\* self.refresh_content(height) of the pane's class; w is what the
\* debugger knows (frames, bps, values, files), lg the logger
refresh_content(self, con, w, lg, height) ==
    IF self.cls = "Source"
    THEN Source_refresh_content(self, con, w.frames, w.bps, w.files, height)
    ELSE IF self.cls = "Breakpoints" THEN Breakpoints_refresh_content(self, con, w.bps)
    ELSE IF self.cls = "Watch" THEN Watch_refresh_content(self, con, w.values, height)
    ELSE IF self.cls = "ValueHistory" THEN ValueHistory_refresh_content(self, con, height)
    ELSE IF self.cls = "Stack" THEN Stack_refresh_content(self, con, w.frames)
    ELSE Log_refresh_content(self, con, lg, height)

\* the loop of Pane.render over raw: one line fitted
fit_line(l, width, padding) ==
    IF l.isansi THEN match(l.obj, width, padding).ret
    ELSE match_pure_str(l.text, width, padding)

\* the end of Pane.render: short content is filled with empty lines
fill(content, width, height, padding) ==
    IF height - Len(content) > 0
    THEN content \o [i \in 1..(height - Len(content)) |->
                        IF padding THEN Spaces(width) ELSE <<>>]
    ELSE content

\* Pane.render after refresh_content gave r
fit_content(r, width, height, padding) ==
    IF r.raised # ""
    THEN [content |-> <<>>, self |-> r.self, console |-> r.console, raised |-> r.raised]
    ELSE IF \E k \in 1..Len(r.raw) : r.raw[k].isansi /\ r.raw[k].obj.seq = <<>>
    THEN [content |-> <<>>, self |-> r.self, console |-> r.console, raised |-> "IndexError"]
    ELSE [content |-> fill([k \in 1..Len(r.raw) |-> fit_line(r.raw[k], width, padding)],
                           width, height, padding),
          self |-> r.after, console |-> r.console, raised |-> ""]

\* Pane.render(width, height, padding): the content it returns, the pane
\* and the console as it leaves them
render(self, con, w, lg, width, height, padding) ==
    fit_content(refresh_content(self, con, w, lg, height), width, height, padding)
----------------------------------------------------------------------------
(* What a debugging session offers to a pane                               *)

MaxFrames == 3                \* depth of the deepest stack
MaxBps == 2                   \* breakpoints and watchpoints created in a session
MaxHits == 1                  \* hits counted on one breakpoint
MaxWatch == 2                 \* expressions on the watch list
MaxHistory == 2               \* values in gdb's value history
MaxHeight == 3                \* height of the tallest slot
MaxLogWrites == 2             \* reads of the logger from the inferior's output

PaneClasses == {"Source", "Breakpoints", "Watch", "ValueHistory", "Stack", "Log"}

\* <<width, padding>> of the slot that renders the pane: a narrow slot
\* that has a slot to its right, a wide one at the right edge
SlotShapes == { <<8, TRUE>>, <<40, FALSE>> }

NormalFrame(level, ln) ==
    [type |-> "NORMAL_FRAME", level |-> level, symtab |-> TRUE, filename |-> SourceFile,
     line |-> ln, name |-> <<"f">>]

\* a frame of a library without debug information
LibcFrame(level) ==
    [type |-> "NORMAL_FRAME", level |-> level, symtab |-> FALSE, filename |-> <<>>,
     line |-> 0, name |-> <<"g">>]

DummyFrame(level) ==
    [type |-> "DUMMY_FRAME", level |-> level, symtab |-> FALSE, filename |-> <<>>,
     line |-> 0, name |-> <<>>]

\* the stacks of a stopped inferior, from the selected frame outwards
Stacks ==
    {[k \in 1..d |-> NormalFrame(k - 1, ((d + k) % 3) + 1)] : d \in 1..MaxFrames}
    \cup { <<DummyFrame(0), NormalFrame(1, 2)>>, <<LibcFrame(0), NormalFrame(1, 1)>> }

\* the highlighted text of the source file
SourceText ==
    << <<ESC, "[", "3", "8", ";", "5", ";", "8", "1", "m", "i", "n", "t",
          ESC, "[", "3", "9", "m", " ", "f", "(", ")">>,
       <<"\t">> \o <<ESC, "[", "3", "8", ";", "5", ";", "8", "1", "m", "r", "e", "t",
             "u", "r", "n", ESC, "[", "3", "9", "m", " ", "1", ";">>,
       <<"}">> >>

\* the source file as the file system has it
Files(readable, edited) ==
    << <<SourceFile, [readable |-> readable, edited |-> edited, source |-> SourceText]>> >>

Scalar(text) == [lines |-> <<text>>, is_list |-> FALSE, size |-> 0]

StructValue ==
    [lines |-> << <<"{">>, <<" ", " ", "a", " ", "=", " ", "1", ",">>, <<" ", " ", "b", " ", "=", " ", "2", ",">>, <<" ", " ", "c", " ", "=", " ", "3", ",">>, <<" ", " ", "d", " ", "=", " ", "4">>, <<"}">> >>,
     is_list |-> FALSE, size |-> 0]

ListValue ==
    [lines |-> << <<"s", "t", "d", ":", ":", "_", "_", "c", "x", "x", "1", "1", ":",
          ":", "l", "i", "s", "t", " ", "=", " ", "{">>, <<" ", " ", "[", "0", "]", " ", "=", " ", "1", ",">>, <<" ", " ", "[", "1", "]", " ", "=", " ", "2">>, <<"}">> >>,
     is_list |-> TRUE, size |-> 2]

\* the values of the expressions in scope, before and after a step
Values(changed) ==
    << <<<<"x">>, Scalar(IF changed THEN <<"2">> ELSE <<"1">>)>>, <<<<"s">>, StructValue>>,
       <<<<"l">>, ListValue>> >>

\* expressions put on the watch list, q is not in scope
WatchExprs == {<<"x">>, <<"s">>, <<"q">>}

\* the commands a user types
Commands ==
    {<<"n", "e", "x", "t">>, <<"f", "r", "a", "m", "e">>, <<"p", " ", "x">>, <<"p", " ", "l">>, <<"p", " ", "q">>, <<"p", "/", "x", " ", "x">>, <<"p", "a", "n", "e", "l", " ", "p", "r", "i", "n", "t", " ", "s">>}

\* the expression a print command evaluates
Operand(c) ==
    IF PySlice(c, 0, 2) = <<"p", " ">> THEN PySlice(c, 2, Len(c))
    ELSE IF PySlice(c, 0, 4) = <<"p", "/", "x", " ">> THEN PySlice(c, 4, Len(c))
    ELSE IF PySlice(c, 0, 12) = <<"p", "a", "n", "e", "l", " ", "p", "r", "i", "n", "t", " ">> THEN PySlice(c, 12, Len(c))
    ELSE <<>>

\* what the inferior writes between two reads of the logger
LogBatches == { <<"a">>, <<"b", "\n">>, <<"~", "\n", "\t", "c">> }

\* log.split('\n')
RECURSIVE split_lines(_)
split_lines(log) ==
    LET at == Find(log, <<"\n">>, 1)
    IN IF at = 0 THEN <<log>>
       ELSE <<SubSeq(log, 1, at - 1)>> \o split_lines(SubSeq(log, at + 1, Len(log)))

NewBps(number) ==
    {[number |-> number, location |-> TRUE, expression |-> <<>>, filename |-> SourceFile,
      line_num |-> number, function |-> <<"f">>, condition |-> c, hit_count |-> 0,
      enabled |-> TRUE] : c \in {<<>>}}
    \cup {[number |-> number, location |-> FALSE, expression |-> <<"x">>, filename |-> <<>>,
           line_num |-> 0, function |-> <<>>, condition |-> <<>>, hit_count |-> 0,
           enabled |-> TRUE]}

NoWorld ==
    [frames |-> <<>>, bps |-> <<>>, next_bp |-> 1, changed |-> FALSE, readable |-> TRUE,
     edited |-> FALSE, last_cmd |-> <<>>, history_count |-> 0, history |-> <<>>,
     log_writes |-> 0, pending |-> FALSE, prints |-> <<>>,
     since |-> 1]              \* the number the next breakpoint had at the last reset_flags

NoOut ==
    [op |-> "none", width |-> 0, height |-> 0, padding |-> FALSE, content |-> <<>>,
     raised |-> ""]
----------------------------------------------------------------------------
(* Panel: the flags, the layout in use, the commands and the refresh hook. *)
(* A slot is the index of its node in layout.nodes, 0 for None; a pane is  *)
(* its name here, NoPane for None; pane_slot is pane.slot of every pane,   *)
(* slot_pane is slot.pane of every slot of self.layout. An argument that   *)
(* may be None is the empty tuple or the tuple of its value.               *)

\* the Pane subclasses in Panel.__dict__, in the order start() finds them
PaneNames == <<"Source", "Breakpoints", "Watch", "ValueHistory", "Stack", "Log">>

NoPane == ""

\* Panel.config['layout']
DefaultConfig ==
    [slots |-> DefaultSlots,
     panes |-> << <<"Source", 0>>, <<"ValueHistory", 1>>, <<"Stack", 2>>, <<"Breakpoints", 3>> >>]

NoConfig == [slots |-> <<>>, panes |-> <<>>]

Raise(raised, self) == [raised |-> raised, self |-> self]
Return(self) == [raised |-> "", self |-> self]

\* the first loop of check_layout_config: the mapping, or the first error
RECURSIVE check_slots(_, _)
check_slots(slots, mapping) ==
    IF slots = <<>> THEN [error |-> Ok, mapping |-> mapping]
    ELSE IF Head(slots) = None THEN check_slots(Tail(slots), mapping)
    ELSE IF \E k \in 2..Len(Head(slots)) : Head(slots)[k] <= 0 \/ Head(slots)[k] > GridUnits
    THEN [error |-> PanelConfigError("width/height must in range (0, 10]", 0, 0, 0),
          mapping |-> mapping]
    ELSE check_slots(Tail(slots), DictSet(mapping, Head(slots)[1], NoPane))

\* the second loop: every name in the model's configs is in Panel.__dict__
RECURSIVE check_panes(_, _)
check_panes(panes, mapping) ==
    IF panes = <<>> THEN [error |-> Ok, mapping |-> mapping]
    ELSE IF ~DictHas(mapping, Head(panes)[2])
    THEN [error |-> PanelConfigError("invalid slot index", 0, 0, 0), mapping |-> mapping]
    ELSE IF DictGet(mapping, Head(panes)[2]) # NoPane
    THEN [error |-> PanelConfigError("conflict slot index", 0, 0, 0), mapping |-> mapping]
    ELSE check_panes(Tail(panes), DictSet(mapping, Head(panes)[2], Head(panes)[1]))

\* the third loop, p what the second left
check_mapping(p) ==
    IF p.error # Ok THEN p.error
    ELSE IF \E k \in 1..Len(p.mapping) : p.mapping[k][2] = NoPane
    THEN PanelConfigError("slot has no pane assigned", 0, 0, 0)
    ELSE Ok

check_after_slots(s, panes) ==
    IF s.error # Ok THEN s.error ELSE check_mapping(check_panes(panes, s.mapping))

\* check_layout_config: Ok, or the error it raises
check_layout_config(cfg) == check_after_slots(check_slots(cfg.slots, <<>>), cfg.panes)

\* Panel.__init__, and the attributes start() and refresh_layout create
Panel_init ==
    [enabled |-> FALSE, err |-> FALSE, render_once |-> FALSE, skip_render_once |-> FALSE,
     layout_valid |-> FALSE, auto_render |-> TRUE, width |-> 0, height |-> 0,
     current_layout_config |-> NoConfig, layout |-> NoLayout,
     pane_slot |-> [k \in 1..Len(PaneNames) |-> <<PaneNames[k], 0>>],
     slot_pane |-> <<>>]

\* the loop of refresh_layout over self.panes
assign_panes(self) ==
    LET panes_config == self.current_layout_config.panes
        slot_of(name) == IF DictHas(panes_config, name)
                         THEN DictGet(self.layout.slots, DictGet(panes_config, name))
                         ELSE 0
        holders(n) == {k \in 1..Len(PaneNames) : slot_of(PaneNames[k]) = n}
    IN [self EXCEPT
           !.pane_slot = [k \in 1..Len(PaneNames) |-> <<PaneNames[k], slot_of(PaneNames[k])>>],
           !.slot_pane = [n \in 1..Len(self.layout.nodes) |->
                             IF holders(n) = {} THEN NoPane
                             ELSE PaneNames[CHOOSE k \in holders(n) : \A j \in holders(n) : j <= k]]]

\* refresh_layout from `self.layout = Panel.Layout(...)` on, L what the
\* constructor gave
refresh_built(self, L) ==
    IF L.status # "ok" THEN Raise(L.error.kind, self)
    ELSE Return(assign_panes([self EXCEPT !.layout = L, !.layout_valid = TRUE]))

\* refresh_layout after `self.current_layout_config = new_config`
refresh_configured(self) ==
    refresh_built(self, Layout_init(self.current_layout_config.slots, self.width, self.height))

\* refresh_layout after `self.layout_valid = False`
refresh_invalidated(self, new_config) ==
    IF new_config = <<>> THEN refresh_configured(self)
    ELSE IF check_layout_config(new_config[1]) # Ok THEN Raise("PanelConfigError", self)
    ELSE refresh_configured([self EXCEPT !.current_layout_config = new_config[1]])

\* refresh_layout(new_config), tsize what os.get_terminal_size() answers
refresh_layout(self, new_config, tsize) ==
    IF new_config = <<>> /\ tsize[1] = self.width /\ tsize[2] = self.height + 2
    THEN Return(self)
    ELSE refresh_invalidated([self EXCEPT !.width = tsize[1], !.height = tsize[2] - 2,
                                          !.layout_valid = FALSE],
                             new_config)

\* start(): the panel once load_config has run
start(self, auto_render, tsize) ==
    refresh_layout([self EXCEPT !.enabled = TRUE, !.auto_render = auto_render],
                   <<DefaultConfig>>, tsize)

\* excepthook for an exception that is not a KeyboardInterrupt
excepthook(self) == [self EXCEPT !.err = TRUE]

\* invoke, 'panel'
invoke_panel(self) == Return([self EXCEPT !.render_once = TRUE])

\* invoke, 'panel silent COMMAND' ('panel print EXPRESSION' and 'panel flush'
\* set the flag and call gdb.execute the same way); fails when gdb.execute
\* raises gdb.error, the flag is set by then
invoke_silent(self, fails) ==
    IF fails THEN Raise("gdb.error", [self EXCEPT !.skip_render_once = TRUE])
    ELSE Return([self EXCEPT !.skip_render_once = TRUE])

\* invoke, 'panel layout IDX'; layout_configs is the empty list when the
\* attribute is not defined
invoke_layout(self, idx, layout_configs, tsize) ==
    IF idx >= Len(layout_configs) THEN Raise("PanelError", self)
    ELSE refresh_layout(self, <<layout_configs[idx + 1]>>, tsize)

\* 'panel view PANE SLOT' without `if slot_a: slot_a.pane = pane_b`
view_swap_mutant(self, pane_a, slot_b) ==
    LET slot_a == DictGet(self.pane_slot, pane_a)
        pane_b == self.slot_pane[slot_b]
    IN IF pane_b = NoPane THEN Raise("AttributeError", self)
       ELSE Return([self EXCEPT
                       !.pane_slot = DictSet(DictSet(@, pane_a, DictGet(self.pane_slot, pane_b)),
                                             pane_b, slot_a),
                       !.slot_pane = [@ EXCEPT ![slot_b] = pane_a]])

\* invoke, 'panel view PANE SLOT' from `slot_a = pane_a.slot` on; pane_b.slot
\* of None raises before anything is assigned
view_swap(self, pane_a, slot_b) ==
    LET slot_a == DictGet(self.pane_slot, pane_a)
        pane_b == self.slot_pane[slot_b]
    IN IF pane_b = NoPane THEN Raise("AttributeError", self)
       ELSE Return([self EXCEPT
                       !.pane_slot = DictSet(DictSet(@, pane_a, DictGet(self.pane_slot, pane_b)),
                                             pane_b, slot_a),
                       !.slot_pane = [n \in 1..Len(self.slot_pane) |->
                                         IF slot_a # 0 /\ n = slot_a THEN pane_b
                                         ELSE IF n = slot_b THEN pane_a
                                         ELSE self.slot_pane[n]]])

invoke_view(self, pane_name, idx) ==
    IF pane_name \notin Range(PaneNames) THEN Raise("PanelError", self)
    ELSE IF ~DictHas(self.layout.slots, idx) THEN Raise("PanelError", self)
    ELSE view_swap(self, pane_name, DictGet(self.layout.slots, idx))

\* the error flag is tested after the skip request
skip_render_mutant(self) ==
    IF ~self.layout_valid THEN [skip |-> TRUE, self |-> self]
    ELSE IF self.render_once THEN [skip |-> FALSE, self |-> [self EXCEPT !.render_once = FALSE]]
    ELSE IF ~self.auto_render THEN [skip |-> TRUE, self |-> self]
    ELSE IF self.skip_render_once
    THEN [skip |-> TRUE, self |-> [self EXCEPT !.skip_render_once = FALSE]]
    ELSE IF self.err THEN [skip |-> TRUE, self |-> [self EXCEPT !.err = FALSE]]
    ELSE [skip |-> FALSE, self |-> self]

\* skip_render of render_handler: what it returns and the flags it leaves
skip_render(self) ==
    IF ~self.layout_valid THEN [skip |-> TRUE, self |-> self]
    ELSE IF self.render_once THEN [skip |-> FALSE, self |-> [self EXCEPT !.render_once = FALSE]]
    ELSE IF ~self.auto_render THEN [skip |-> TRUE, self |-> self]
    ELSE IF self.err THEN [skip |-> TRUE, self |-> [self EXCEPT !.err = FALSE]]
    ELSE IF self.skip_render_once
    THEN [skip |-> TRUE, self |-> [self EXCEPT !.skip_render_once = FALSE]]
    ELSE [skip |-> FALSE, self |-> self]

NoShown == [config |-> NoConfig, nodes |-> <<>>, slot_pane |-> <<>>]

\* what render() prints: the tree of self.layout with the pane of every slot
Shown(self) ==
    [config |-> self.current_layout_config, nodes |-> self.layout.nodes,
     slot_pane |-> self.slot_pane]

\* render() after refresh_layout() gave r: Slot.render raises at a slot
\* without pane, nothing is printed then
render_tree(r) ==
    IF r.raised # "" THEN [raised |-> r.raised, self |-> r.self, shown |-> NoShown]
    ELSE IF \E n \in 1..Len(r.self.slot_pane) : r.self.slot_pane[n] = NoPane
    THEN [raised |-> "PanelError", self |-> r.self, shown |-> NoShown]
    ELSE [raised |-> "", self |-> r.self, shown |-> Shown(r.self)]

\* Panel.render()
Panel_render(self, tsize) == render_tree(refresh_layout(self, <<>>, tsize))
----------------------------------------------------------------------------
(* The layouts a user switches between, and the commands                   *)

\* two rows
Stacked ==
    [slots |-> << <<0, 10, 5>>, None, <<1, 10, 5>>, None, None >>,
     panes |-> << <<"Source", 0>>, <<"Stack", 1>> >>]

\* a width beyond the grid: check_layout_config rejects it
TooWide ==
    [slots |-> << <<0, 11, 10>>, None, None >>, panes |-> << <<"Source", 0>> >>]

\* widths within (0, 10] that do not fill the row: Panel.Layout rejects it
Narrow ==
    [slots |-> << <<0, 6, 10>>, None, None >>, panes |-> << <<"Source", 0>> >>]

\* panel.layout_configs
LayoutConfigs == <<DefaultConfig, Stacked, TooWide, Narrow>>

\* the arguments of 'panel view'
ViewPanes == {"Stack", "Heap"}
ViewSlots == {0, 9}

GdbCommands == {<<"n", "e", "x", "t">>, <<"f", "r", "a", "m", "e">>}

NoCmd ==
    [name |-> "", text |-> <<>>, args |-> <<>>, raised |-> "", hooked |-> FALSE,
     before |-> Panel_init]

NoFlags == [sal_outdated |-> FALSE, refresh_watch_val |-> FALSE]

NoCycle ==
    [ran |-> FALSE, cmd |-> "", failed |-> FALSE, before |-> Panel_init, flags |-> NoFlags,
     decided |-> Panel_init, skipped |-> FALSE, rendered |-> FALSE, raised |-> "",
     shown |-> NoShown]
----------------------------------------------------------------------------
(* The relay of the inferior's output: Console.running_handler starts a    *)
(* thread on Logger.redirect, the handlers of gdb's events run on gdb's    *)
(* own thread                                                              *)

\* Console.running_handler: the flags it leaves and whether it started a
\* thread
running_handler(self) ==
    IF self.inferior_running THEN [console |-> self, started |-> FALSE]
    ELSE IF self.logging
    THEN [console |-> [self EXCEPT !.inferior_running = TRUE], started |-> TRUE]
    ELSE [console |-> self, started |-> FALSE]

\* Console.start_logger: the flag; Logger.start opens the fifo and
\* registers it with a new selector
start_logger(self) == [self EXCEPT !.logging = TRUE]

\* inf_exit_logger_handler up to time.sleep(0.1)
exit_begin(self) == [self EXCEPT !.inferior_running = FALSE]

\* inf_exit_logger_handler after self.logger.end()
exit_end(self) == [self EXCEPT !.logging = FALSE]

\* the loop of Logger.redirect_once over log.split('\n'): tabs are kept
RECURSIVE redirect_once(_, _)
redirect_once(self, lines) ==
    IF lines = <<>> THEN self
    ELSE redirect_once([logs |-> [self.logs EXCEPT ![self.cursor + 1] = Head(lines)],
                        cursor |-> IF self.cursor = LastLog THEN 0 ELSE self.cursor + 1],
                       Tail(lines))

\* the loop of Logger.redirect without the test of its first statement
redirect_check_mutant(self) == "select"

\* `if not console.inferior_running: break` at the top of the loop of
\* Logger.redirect
redirect_check(self) == IF self.inferior_running THEN "select" ELSE "done"

----------------------------------------------------------------------------
(* The inferior and the threads                                            *)

MaxThreads == 3               \* threads started in a run of the model
MaxWrites == 1                \* writes of the inferior to the fifo

NoFifo == [data |-> <<>>, written |-> 0]

Alive == {t \in 1..Len(threads) : threads[t] # "done"}

----------------------------------------------------------------------------
(* The ring buffer of the logger, statement by statement: the body of the  *)
(* loop over log.split('\n') in Logger.redirect reads and writes           *)
(* self.cursor and self.logs without a lock, so two threads in the loop    *)
(* interleave between its statements                                       *)

Relays == 2                   \* the threads that can be in Logger.redirect

IdleWriter == [pc |-> "idle", lines |-> <<>>, val |-> 0]

NoRing ==
    [stored |-> 0, hist |-> <<>>, produced |-> 0, fine |-> 0,
     writers |-> [w \in 1..Relays |-> IdleWriter]]

\* no gdb session: no fifo in /tmp, no Logger (path 0), no fifo opened yet
\* (opened 0), no listener of gdb.events.gdb_exiting
NoFs ==
    [session |-> "off", enabled |-> FALSE, logging |-> FALSE, starts |-> 0,
     paths |-> {}, made |-> 0, path |-> 0, opened |-> 0,
     listeners |-> 0, ran |-> 0, unlinks |-> <<>>]

\* the last n elements of s
LastN(s, n) == IF Len(s) <= n THEN s ELSE SubSeq(s, Len(s) - n + 1, Len(s))

\* the lines are stored with their tabs replaced
Stored(ln) == Replace(ln, <<"\t">>, Spaces(4))

\* the history of the buffer after the lines of a batch were stored
Remember(self, lines) ==
    [self EXCEPT !.stored = @ + Len(lines),
                 !.hist = LastN(@ \o [k \in 1..Len(lines) |-> Stored(lines[k])], LogSize)]

\* Logger.redirect's loop over a long batch, evaluated piece by piece
\* (the cursor of a piece is looked at before the next piece is begun, so
\* that the recursion of redirect stays shallow)
Piece == 16
RECURSIVE redirect_batch(_, _)
redirect_batch(self, lines) ==
    IF Len(lines) <= Piece THEN redirect(self, lines)
    ELSE LET part == redirect(self, SubSeq(lines, 1, Piece))
         IN IF part.cursor > LastLog THEN part
            ELSE redirect_batch(part, SubSeq(lines, Piece + 1, Len(lines)))

\* `self.logs[self.cursor] = line.replace('\t', '    ')`
store(self, ln) == [self EXCEPT !.logs[self.cursor + 1] = Stored(ln)]

\* after the statement that sets self.cursor: the next line of the batch,
\* or back to the select
next_line(wr) ==
    IF Len(wr.lines) > 1 THEN [wr EXCEPT !.pc = "store", !.lines = Tail(@)]
    ELSE IdleWriter

\* the entries of logs read circularly from the cursor
Circular(self) ==
    [i \in 1..LogSize |-> self.logs[((self.cursor + i - 1) % LogSize) + 1]]

\* Log.refresh_content: the lines it returns
Log_lines(con, lg, height) ==
    LET raw == Log_refresh_content(Pane_new("Log"), con, lg, height).raw
    IN [k \in 1..Len(raw) |-> raw[k].text]

----------------------------------------------------------------------------
(* What the inferior prints                                                *)

MaxLines == 753               \* lines printed by the inferior
MaxFine == 2                  \* batches read once two threads are alive
Bursts == {249, 250}           \* lines of a batch read by the only thread alive
Batches == {1, 2}             \* lines of a batch read once two threads are alive
Heights == {0, 2, 3, 22}      \* heights asked of the Log pane

\* the k-th line the inferior prints: a number, now and then a line that is
\* a tilde, now and then a tab
LineOf(k) ==
    IF k % 4 = 2 THEN <<"~">>
    ELSE IF k % 4 = 3 THEN <<"\t">> \o str(k)
    ELSE str(k)

LinesOf(from, n) == [k \in 1..n |-> LineOf(from + k)]

----------------------------------------------------------------------------
(* The fifo of the Logger: made by Console.init_logger, removed by the      *)
(* listeners of gdb.events.gdb_exiting. A path is a number: create_fifo     *)
(* loops until it finds a path that does not exist.                         *)

create_fifo(self) ==
    [self EXCEPT !.made = @ + 1, !.paths = @ \cup {self.made + 1}]

Console_init_logger(self) ==
    LET made == create_fifo(self)
    IN  [made EXCEPT !.path = made.made,          \* self.logger = Console.Logger()
                     !.listeners = @ + 1]         \* gdb_exiting.connect(lambda e: os.unlink(self.logger.path))

Panel_start(self, redirect_logs) ==
    LET on == [self EXCEPT !.enabled = TRUE, !.starts = @ + 1]
    IN  IF redirect_logs THEN Console_init_logger(on) ELSE on

Panel_end(self) == [self EXCEPT !.enabled = FALSE]

\* os.unlink(path) raises FileNotFoundError when the path is gone; gdb
\* prints the exception of a listener and calls the next one
unlink(self, path) ==
    IF path \in self.paths
    THEN [self EXCEPT !.paths = @ \ {path}, !.unlinks = Append(@, "ok")]
    ELSE [self EXCEPT !.unlinks = Append(@, "FileNotFoundError")]

\* one listener of gdb_exiting called
exiting_listener(self) == [unlink(self, self.path) EXCEPT !.ran = @ + 1]

MaxStarts == 4                \* calls of panel.start() in a session

MaxCreated == 3               \* breakpoints created in a session with starts and ends

----------------------------------------------------------------------------
(* Each specification below runs one part of the program; the variables of *)
(* the other parts stay as they are                                        *)

vars == <<layout_vars, ansi_vars, pane_vars, panel_vars, relay_vars, store_vars>>

OutsideLayout == <<ansi_vars, pane_vars, panel_vars, relay_vars, store_vars>>
OutsideAnsi == <<layout_vars, pane_vars, panel_vars, relay_vars, store_vars>>
OutsidePane == <<layout_vars, ansi_vars, relay_vars, store_vars>>
OutsideRelay == <<layout_vars, ansi_vars, panel_vars, pane, world, out, store_vars>>

LayoutIdle == config = <<>> /\ term = DefaultTerm /\ layout = NoLayout /\ drawn = NoDrawn
AnsiIdle == line = ANSIstr_new /\ src = NoSrc /\ call = NoCall
PaneIdle ==
    /\ pane = Pane_new("Log")
    /\ console = reset_flags(FALSE)
    /\ world = NoWorld
    /\ logger = Logger_init
    /\ out = NoOut
PanelIdle ==
    /\ panel = Panel_init
    /\ tty = DefaultTerm
    /\ pc = "prompt"
    /\ did = NoCmd
    /\ cycle = NoCycle
    /\ retained = NoShown
RelayIdle ==
    /\ threads = <<>>
    /\ chan = "none"
    /\ fifo = NoFifo
    /\ inferior = "none"
    /\ main = "prompt"
    /\ wrote = {}
StoreIdle == ring = NoRing /\ tmp = NoFs

----------------------------------------------------------------------------
(* Specification of the layout constructor: a slots list is written        *)
(* element by element (or taken from the seeds) and handed to Panel.Layout *)

LayoutInit ==
    /\ config \in SeedConfigs
    /\ term \in LayoutTerms
    /\ layout = NoLayout
    /\ drawn = NoDrawn
    /\ AnsiIdle
    /\ PaneIdle
    /\ PanelIdle
    /\ RelayIdle
    /\ StoreIdle

\* the user's config gets one more slot [id, w, h], ids in list order
AppendSlot ==
    /\ layout.status = "none"
    /\ Open(config) > 0
    /\ NumSlots(config) < MaxSlots
    /\ \E w \in Dims, h \in Dims : config' = Append(config, <<NumSlots(config), w, h>>)
    /\ UNCHANGED <<term, layout, drawn>>
    /\ UNCHANGED OutsideLayout

\* the user's config gets one more None
AppendNone ==
    /\ layout.status = "none"
    /\ Open(config) >= 0
    /\ config' = Append(config, None)
    /\ UNCHANGED <<term, layout, drawn>>
    /\ UNCHANGED OutsideLayout

\* self.layout = Panel.Layout(copy.deepcopy(slots_config), self.width, self.height)
Construct ==
    /\ layout.status = "none"
    /\ layout' = Layout_init(config, term[1], term[2] - 2)
    /\ UNCHANGED <<config, term, drawn>>
    /\ UNCHANGED OutsideLayout

\* Panel.render on the layout built, every slot holding a pane: the pane
\* of a slot returns as many lines as the slot is high, the pane of the
\* slot `over` (if any) one more, as a Stack, Breakpoints or Log pane with
\* more entries than lines does
RenderRoot ==
    /\ layout.status = "ok"
    /\ drawn.op = "none"
    /\ \E over \in 0..Len(layout.nodes) :
        drawn' = Panel_print(layout, PaneLines(layout.nodes, over), over)
    /\ UNCHANGED <<config, term, layout>>
    /\ UNCHANGED OutsideLayout

LayoutNext == AppendSlot \/ AppendNone \/ Construct \/ RenderRoot

SpecLayout == LayoutInit /\ [][LayoutNext]_vars

----------------------------------------------------------------------------
(* Specification of one styled line: it is built the way a pane builds it  *)
(* (a decoded source line, a Stack line, a Breakpoints line) and then      *)
(* staged and fitted the way Pane.render and the panes do                  *)

AnsiInit ==
    /\ LayoutIdle
    /\ PaneIdle
    /\ PanelIdle
    /\ RelayIdle
    /\ StoreIdle
    /\ \/ \E e \in Encoded :
            /\ src = [NoSrc EXCEPT !.kind = "decode", !.encoded = e]
            /\ line = ANSIstr_init(e)
            /\ call = NoCall
       \/ \E f \in Frames :
            /\ src = [NoSrc EXCEPT !.kind = "stack"]
            /\ line = stack_line(f)
            /\ call = NoCall
       \/ \E bp \in Bps :
            /\ src = [NoSrc EXCEPT !.kind = "break", !.bp = bp]
            /\ line = update_bp_line(bp, init_break_line(bp))
            /\ call = [NoCall EXCEPT !.op = "update_bp_line"]

\* Source.refresh_content: self.cache[file][center].style_underline()
StyleUnderline ==
    /\ src.kind = "decode"
    /\ Len(line.fix) < MaxStaged
    /\ line' = style_underline(line)
    /\ call' = [NoCall EXCEPT !.op = "style_underline"]
    /\ UNCHANGED src
    /\ UNCHANGED OutsideAnsi

\* Breakpoints.refresh_content: update_bp_line(bp, line) with the hit count
\* and the enabled flag the breakpoint has by then; every line it returns
\* is fitted by Pane.render before the next refresh
UpdateBpLine ==
    /\ src.kind = "break"
    /\ call.op = "match"
    /\ \E h \in HitCounts, e \in BOOLEAN :
        /\ h >= src.bp.hit_count
        /\ LET bp == [src.bp EXCEPT !.hit_count = h, !.enabled = e]
           IN /\ src' = [src EXCEPT !.bp = bp]
              /\ line' = update_bp_line(bp, line)
    /\ call' = [NoCall EXCEPT !.op = "update_bp_line"]
    /\ UNCHANGED OutsideAnsi

\* the widths a line is fitted to: the narrow slots, and the slots about as
\* wide as the line
Widths(self) ==
    (0..MaxWidth)
    \cup (IF self.seq = <<>> THEN {}
          ELSE {w \in (self.seq[Len(self.seq)][1] - 2)..(self.seq[Len(self.seq)][1] + 2) : w >= 0})

\* Pane.render: line.match(width, padding)
Match ==
    /\ src.kind # "none"
    /\ src.kind = "break" => call.op = "update_bp_line"
    /\ \E width \in Widths(line), padding \in BOOLEAN :
        LET r == match(line, width, padding)
        IN /\ line' = r.self
           /\ call' = [op |-> "match", width |-> width, padding |-> padding,
                       staged |-> line.fix, before |-> line.seq,
                       ret |-> r.ret, raised |-> r.raised]
    /\ UNCHANGED src
    /\ UNCHANGED OutsideAnsi

AnsiNext == StyleUnderline \/ UpdateBpLine \/ Match

SpecAnsi == AnsiInit /\ [][AnsiNext]_vars

----------------------------------------------------------------------------
(* Specification of one pane: a pane of one of the six classes, the events *)
(* and commands that change what it reads, and the refresh cycles of       *)
(* render_handler in which its slot renders it or it stays hidden          *)

PaneInit ==
    /\ LayoutIdle
    /\ AnsiIdle
    /\ PanelIdle
    /\ RelayIdle
    /\ StoreIdle
    /\ \E cls \in PaneClasses, has_objfile \in BOOLEAN, readable \in BOOLEAN, edited \in BOOLEAN :
        /\ cls # "Source" => has_objfile /\ readable /\ ~edited
        /\ ~readable => has_objfile /\ ~edited
        /\ ~has_objfile => edited
        /\ pane = Pane_new(cls)
        /\ console = reset_flags(has_objfile)
        /\ world = [NoWorld EXCEPT !.readable = readable, !.edited = edited,
                                   !.last_cmd = <<"n", "e", "x", "t">>]
    /\ logger = Logger_init
    /\ out = NoOut

\* what gdb and the file system answer
Debugger ==
    [frames |-> world.frames, bps |-> world.bps, values |-> Values(world.changed),
     files |-> Files(world.readable, world.edited)]

ReadsFrames == pane.cls \in {"Source", "Stack"}
ReadsBps == pane.cls \in {"Source", "Breakpoints"}

\* the Source pane reads the last breakpoint of console.bps only
BpLimit == IF pane.cls = "Source" THEN 1 ELSE MaxBps

\* the inferior stops (gdb.events.stop): the stack is what it is by then,
\* and a breakpoint that stopped it has one more hit
StopEvent ==
    /\ \E st \in (IF ReadsFrames THEN Stacks ELSE {world.frames}),
          hit \in {0} \cup {n \in DictKeys(world.bps) :
                               /\ pane.cls = "Breakpoints"
                               /\ DictGet(world.bps, n).enabled
                               /\ DictGet(world.bps, n).hit_count < MaxHits} :
        /\ world' = [world EXCEPT
                        !.frames = st,
                        !.bps = IF hit = 0 THEN @
                                ELSE DictSet(@, hit, [DictGet(@, hit) EXCEPT !.hit_count = @ + 1])]
        /\ console' = stop_handler(console, hit # 0)
    /\ out' = NoOut
    /\ UNCHANGED <<pane, logger>>
    /\ UNCHANGED <<OutsidePane, panel_vars>>

\* break / watch (gdb.events.breakpoint_created)
BreakpointCreated ==
    /\ ReadsBps
    /\ world.next_bp <= BpLimit
    /\ \E bp \in NewBps(world.next_bp) :
        /\ world' = [world EXCEPT !.bps = DictSet(@, bp.number, bp), !.next_bp = @ + 1]
        /\ console' = breakpoint_created_handler(console, bp)
    /\ UNCHANGED <<pane, logger, out>>
    /\ UNCHANGED <<OutsidePane, panel_vars>>

\* delete (gdb.events.breakpoint_deleted)
BreakpointDeleted ==
    /\ ReadsBps
    /\ \E n \in DictKeys(world.bps) :
        /\ world' = [world EXCEPT !.bps = SelectSeq(@, LAMBDA item : item[1] # n)]
        /\ console' = breakpoint_deleted_handler(console, n)
    /\ UNCHANGED <<pane, logger, out>>
    /\ UNCHANGED <<OutsidePane, panel_vars>>

\* enable / disable: no handler is connected for it
BreakpointToggled ==
    /\ pane.cls = "Breakpoints"
    /\ \E n \in DictKeys(world.bps) :
        world' = [world EXCEPT !.bps = DictSet(@, n, [DictGet(@, n) EXCEPT !.enabled = ~@])]
    /\ UNCHANGED <<pane, console, logger, out>>
    /\ UNCHANGED <<OutsidePane, panel_vars>>

\* invoke, 'panel watch EXPRESSION'
WatchCmd ==
    /\ pane.cls = "Watch"
    /\ ~world.pending
    /\ Len(pane.expressions) < MaxWatch
    /\ \E expression \in WatchExprs :
        pane' = [pane EXCEPT !.expressions = Append(@, expression)]
    /\ console' = [console EXCEPT !.refresh_watch_val = TRUE]
    /\ world' = [world EXCEPT !.last_cmd = <<"p", "a", "n", "e", "l", " ", "w", "a", "t", "c", "h">>, !.pending = TRUE]
    /\ out' = NoOut
    /\ UNCHANGED logger
    /\ UNCHANGED <<OutsidePane, panel_vars>>

\* the inferior changes a value
ValuesChanged ==
    /\ pane.cls = "Watch"
    /\ world' = [world EXCEPT !.changed = ~@]
    /\ UNCHANGED <<pane, console, logger, out>>
    /\ UNCHANGED <<OutsidePane, panel_vars>>

\* a gdb command, typed at the prompt: a print of an expression in scope
\* adds a value to gdb's value history (world.prints lists them)
Command ==
    /\ ~world.pending
    /\ \E c \in Commands :
        /\ pane.cls # "ValueHistory" => c \in {<<"n", "e", "x", "t">>, <<"f", "r", "a", "m", "e">>}
        /\ c = <<"f", "r", "a", "m", "e">> => ReadsFrames
        /\ IF DictHas(Debugger.values, Operand(c))
           THEN /\ world.history_count < MaxHistory
                /\ world' = [world EXCEPT
                                !.last_cmd = c,
                                !.pending = TRUE,
                                !.history_count = @ + 1,
                                !.history = DictGet(Debugger.values, Operand(c)),
                                !.prints = Append(@, <<world.history_count + 1, c,
                                                       DictGet(Debugger.values, Operand(c))>>)]
           ELSE world' = [world EXCEPT !.last_cmd = c, !.pending = TRUE]
    /\ UNCHANGED <<pane, console, logger, out>>
    /\ UNCHANGED <<OutsidePane, panel_vars>>

\* invoke, 'panel run': console.start_logger()
StartLogger ==
    /\ pane.cls = "Log"
    /\ ~console.logging
    /\ ~world.pending
    /\ console' = [console EXCEPT !.logging = TRUE]
    /\ world' = [world EXCEPT !.last_cmd = <<"p", "a", "n", "e", "l", " ", "r", "u", "n">>, !.pending = TRUE]
    /\ UNCHANGED <<pane, logger, out>>
    /\ UNCHANGED <<OutsidePane, panel_vars>>

\* Logger.redirect reads what the inferior wrote
LogRead ==
    /\ pane.cls = "Log"
    /\ console.logging
    /\ world.log_writes < MaxLogWrites
    /\ \E log \in LogBatches : logger' = redirect(logger, split_lines(log))
    /\ world' = [world EXCEPT !.log_writes = @ + 1]
    /\ UNCHANGED <<pane, console, out>>
    /\ UNCHANGED <<OutsidePane, panel_vars>>

\* the start of render_handler: the last command and its value, recorded
\* by the ValueHistory pane
Recorded ==
    LET g == get_last_cmd_val(console, world.last_cmd, world.history_count, world.history)
    IN [console |-> g.console,
        pane |-> IF pane.cls = "ValueHistory"
                 THEN record_cmd_value(pane, g.count, g.cmd, g.val) ELSE pane]

\* the end of render_handler after Pane.render gave r: an exception leaves
\* the flags as they are
Rendered(r, width, height, padding) ==
    /\ pane' = r.self
    /\ console' = IF r.raised # "" THEN r.console
                  ELSE [r.console EXCEPT !.sal_outdated = FALSE, !.refresh_watch_val = FALSE]
    /\ out' = [op |-> "render", width |-> width, height |-> height, padding |-> padding,
               content |-> r.content, raised |-> r.raised]

RenderRecorded(rec, width, height, padding) ==
    Rendered(render(rec.pane, rec.console, Debugger, logger, width, height, padding),
             width, height, padding)

\* render_handler when the pane's slot renders it: Pane.render(width,
\* height, padding) with the slot's size
RenderCycle ==
    /\ \E shape \in SlotShapes, height \in 1..MaxHeight :
        RenderRecorded(Recorded, shape[1], height, shape[2])
    /\ world' = [world EXCEPT !.pending = FALSE]
    /\ UNCHANGED logger
    /\ UNCHANGED <<OutsidePane, panel_vars>>

Skipped(rec) ==
    /\ pane' = rec.pane
    /\ console' = [rec.console EXCEPT !.sal_outdated = FALSE, !.refresh_watch_val = FALSE]

\* render_handler when the pane is hidden or the render is skipped
HiddenCycle ==
    /\ Skipped(Recorded)
    /\ out' = NoOut
    /\ world' = [world EXCEPT !.pending = FALSE]
    /\ UNCHANGED logger
    /\ UNCHANGED <<OutsidePane, panel_vars>>

PaneNext ==
    \/ StopEvent
    \/ BreakpointCreated
    \/ BreakpointDeleted
    \/ BreakpointToggled
    \/ WatchCmd
    \/ ValuesChanged
    \/ Command
    \/ StartLogger
    \/ LogRead
    \/ RenderCycle
    \/ HiddenCycle

SpecPane == PaneInit /\ [][PaneNext]_vars

----------------------------------------------------------------------------
(* Specification of the panel: gdb runs a command, then the before_prompt  *)
(* hook (render_handler), then waits for the next command; the terminal is *)
(* resized at any time. The panes' own fields are left out here (they are  *)
(* the subject of SpecPane): a pane is a name that sits in a slot or not.  *)
(* Whether gdb hands an exception to sys.excepthook depends on its         *)
(* settings, so either happens.                                            *)

PanelInit ==
    /\ LayoutIdle
    /\ AnsiIdle
    /\ RelayIdle
    /\ StoreIdle
    /\ pane = Pane_new("Log") /\ world = NoWorld /\ logger = Logger_init /\ out = NoOut
    /\ console = reset_flags(TRUE)
    /\ tty = DefaultTerm
    /\ \E auto_render \in BOOLEAN : panel = start(Panel_init, auto_render, DefaultTerm).self
    /\ pc = "prompt"
    /\ did = NoCmd
    /\ cycle = NoCycle
    /\ retained = NoShown

\* the end of a panel command that gave r; args and before keep what a
\* 'panel view' was given and what a view or a switch started from
Ended(name, text, args, r, hooked) ==
    /\ panel' = IF r.raised # "" /\ hooked THEN excepthook(r.self) ELSE r.self
    /\ did' = [name |-> name, text |-> text, args |-> args, raised |-> r.raised,
               hooked |-> r.raised # "" /\ hooked,
               before |-> IF name \in {"layout", "view"} THEN panel ELSE Panel_init]
    /\ cycle' = NoCycle
    /\ pc' = "hook"

Invoked(name, text, r, hooked) == Ended(name, text, <<>>, r, hooked)

\* 'panel'
PanelCmd ==
    /\ pc = "prompt"
    /\ Invoked("panel", <<"p", "a", "n", "e", "l">>, invoke_panel(panel), FALSE)
    /\ UNCHANGED <<tty, retained, console>>
    /\ UNCHANGED <<pane, world, logger, out>>
    /\ UNCHANGED OutsidePane

\* 'panel silent next', which stops the inferior again, and 'panel silent
\* COMMAND' with a COMMAND gdb rejects
SilentCmd ==
    /\ pc = "prompt"
    /\ \E fails \in BOOLEAN, hooked \in BOOLEAN :
        /\ Invoked("silent", <<"p", "a", "n", "e", "l", " ", "s", "i", "l", "e", "n", "t">>, invoke_silent(panel, fails), hooked)
        /\ console' = IF fails THEN console ELSE stop_handler(console, FALSE)
    /\ UNCHANGED <<tty, retained>>
    /\ UNCHANGED <<pane, world, logger, out>>
    /\ UNCHANGED OutsidePane

\* the layout a rejected switch should leave in use: kept from the first
\* rejection until a switch succeeds
Retained(r) ==
    IF r.raised = "" THEN NoShown
    ELSE IF r.raised = "PanelError" \/ retained # NoShown THEN retained
    ELSE Shown(panel)

Switched(r, hooked) ==
    /\ Invoked("layout", <<"p", "a", "n", "e", "l", " ", "l", "a", "y", "o", "u", "t">>, r, hooked)
    /\ retained' = Retained(r)

\* 'panel layout IDX'
LayoutCmd ==
    /\ pc = "prompt"
    /\ \E idx \in 0..Len(LayoutConfigs), hooked \in BOOLEAN :
        Switched(invoke_layout(panel, idx, LayoutConfigs, tty), hooked)
    /\ UNCHANGED <<tty, console>>
    /\ UNCHANGED <<pane, world, logger, out>>
    /\ UNCHANGED OutsidePane

\* 'panel view PANE SLOT'
ViewCmd ==
    /\ pc = "prompt"
    /\ \E pane_name \in ViewPanes, idx \in ViewSlots, hooked \in BOOLEAN :
        Ended("view", <<"p", "a", "n", "e", "l", " ", "v", "i", "e", "w">>, <<pane_name, idx>>,
              invoke_view(panel, pane_name, idx), hooked)
    /\ UNCHANGED <<tty, retained, console>>
    /\ UNCHANGED <<pane, world, logger, out>>
    /\ UNCHANGED OutsidePane

\* a gdb command: next stops the inferior (gdb.events.stop), frame does not
GdbCmd ==
    /\ pc = "prompt"
    /\ \E c \in GdbCommands :
        /\ did' = [name |-> "gdb", text |-> c, args |-> <<>>, raised |-> "", hooked |-> FALSE,
                   before |-> Panel_init]
        /\ console' = IF c = <<"n", "e", "x", "t">> THEN stop_handler(console, FALSE) ELSE console
    /\ cycle' = NoCycle
    /\ pc' = "hook"
    /\ UNCHANGED <<panel, tty, retained>>
    /\ UNCHANGED <<pane, world, logger, out>>
    /\ UNCHANGED OutsidePane

\* the terminal window is resized
Resize ==
    /\ \E size \in TermSizes \ {tty} : tty' = size
    /\ UNCHANGED <<panel, pc, did, cycle, retained, console>>
    /\ UNCHANGED <<pane, world, logger, out>>
    /\ UNCHANGED OutsidePane

\* the flags of the console a refresh cycle clears
Flags(con) == [sal_outdated |-> con.sal_outdated, refresh_watch_val |-> con.refresh_watch_val]

\* render_handler when skip_render() says skip; g is the console after
\* get_last_cmd_val
CycleSkipped(s, g) ==
    /\ panel' = s.self
    /\ console' = [g EXCEPT !.sal_outdated = FALSE, !.refresh_watch_val = FALSE]
    /\ cycle' = [ran |-> TRUE, cmd |-> did.name, failed |-> did.hooked, before |-> panel,
                 flags |-> Flags(console),
                 decided |-> s.self, skipped |-> TRUE, rendered |-> FALSE,
                 raised |-> "", shown |-> NoShown]

\* render_handler when self.render() gave r: an exception leaves the flags
\* of the console as they are
CycleRendered(s, r, g, hooked) ==
    /\ panel' = IF r.raised # "" /\ hooked THEN excepthook(r.self) ELSE r.self
    /\ console' = IF r.raised # "" THEN g
                  ELSE [g EXCEPT !.sal_outdated = FALSE, !.refresh_watch_val = FALSE]
    /\ cycle' = [ran |-> TRUE, cmd |-> did.name, failed |-> did.hooked, before |-> panel,
                 flags |-> Flags(console),
                 decided |-> s.self, skipped |-> FALSE, rendered |-> r.raised = "",
                 raised |-> r.raised, shown |-> r.shown]

Cycle(s, g, hooked) ==
    IF s.skip THEN CycleSkipped(s, g)
    ELSE CycleRendered(s, Panel_render(s.self, tty), g, hooked)

\* the before_prompt hook
RenderHandler ==
    /\ pc = "hook"
    /\ \E hooked \in BOOLEAN :
        Cycle(skip_render(panel), get_last_cmd_val(console, did.text, 0, None).console, hooked)
    /\ pc' = "prompt"
    /\ did' = NoCmd
    /\ UNCHANGED <<tty, retained>>
    /\ UNCHANGED <<pane, world, logger, out>>
    /\ UNCHANGED OutsidePane

PanelNext ==
    \/ PanelCmd
    \/ SilentCmd
    \/ LayoutCmd
    \/ ViewCmd
    \/ GdbCmd
    \/ Resize
    \/ RenderHandler

SpecPanel == PanelInit /\ [][PanelNext]_vars

----------------------------------------------------------------------------
(* Specification of the relay: gdb's thread runs the commands and the      *)
(* handlers of the events (one at a time, a handler is one step but for    *)
(* the sleep of the exit handler), every thread started on Logger.redirect *)
(* runs its loop at its own pace: the test of inferior_running, the        *)
(* select with its timeout of one second, the read and the writes to logs. *)

RelayInit ==
    /\ LayoutIdle
    /\ AnsiIdle
    /\ PanelIdle
    /\ pane = Pane_new("Log") /\ world = NoWorld /\ out = NoOut
    /\ console = reset_flags(TRUE)
    /\ logger = Logger_init
    /\ threads = <<>>
    /\ chan = "none"
    /\ fifo = NoFifo
    /\ inferior = "none"
    /\ main = "prompt"
    /\ wrote = {}
    /\ StoreIdle

\* gdb.events.cont reaches running_handler
Continued(self) ==
    /\ running_handler(self).started => Len(threads) < MaxThreads
    /\ console' = running_handler(self).console
    /\ threads' = IF running_handler(self).started THEN Append(threads, "check") ELSE threads

\* 'panel run': console.start_logger(), then gdb runs the inferior with its
\* output sent to the fifo
PanelRun ==
    /\ main = "prompt"
    /\ inferior \in {"none", "exited"}
    /\ Continued(start_logger(console))
    /\ chan' = "open"
    /\ inferior' = "running"
    /\ UNCHANGED <<logger, fifo, main, wrote>>
    /\ UNCHANGED OutsideRelay

\* continue, next, step: the inferior runs on
Cont ==
    /\ main = "prompt"
    /\ inferior = "stopped"
    /\ Continued(console)
    /\ inferior' = "running"
    /\ UNCHANGED <<logger, chan, fifo, main, wrote>>
    /\ UNCHANGED OutsideRelay

\* the inferior stops (gdb.events.stop)
Stop ==
    /\ main = "prompt"
    /\ inferior = "running"
    /\ console' = stop_handler(console, FALSE)
    /\ inferior' = "stopped"
    /\ UNCHANGED <<logger, threads, chan, fifo, main, wrote>>
    /\ UNCHANGED OutsideRelay

\* the inferior writes to its standard output
InferiorWrites ==
    /\ inferior = "running"
    /\ fifo.written < MaxWrites
    /\ \E log \in LogBatches :
        fifo' = [data |-> fifo.data \o log, written |-> fifo.written + 1]
    /\ UNCHANGED <<console, logger, threads, chan, inferior, main, wrote>>
    /\ UNCHANGED OutsideRelay

\* 'panel flush' with the inferior stopped: redirect_once on gdb's thread
\* reads what the select reports within its timeout
Flush ==
    /\ main = "prompt"
    /\ inferior = "stopped"
    /\ chan = "open"
    /\ IF fifo.data = <<>>
       THEN UNCHANGED <<logger, fifo, wrote>>
       ELSE /\ logger' = redirect_once(logger, split_lines(fifo.data))
            /\ fifo' = [fifo EXCEPT !.data = <<>>]
            /\ wrote' = wrote \cup {"main"}
    /\ UNCHANGED <<console, threads, chan, inferior, main>>
    /\ UNCHANGED OutsideRelay

\* the inferior exits (gdb.events.exited): inf_exit_logger_handler clears
\* inferior_running and sleeps
ExitBegin ==
    /\ main = "prompt"
    /\ inferior = "running"
    /\ console.logging
    /\ console' = exit_begin(console)
    /\ inferior' = "exited"
    /\ main' = "sleep"
    /\ UNCHANGED <<logger, threads, chan, fifo, wrote>>
    /\ UNCHANGED OutsideRelay

\* the sleep is over: self.logger.end() closes the selector and the fifo
ExitEnd ==
    /\ main = "sleep"
    /\ console' = exit_end(console)
    /\ chan' = "closed"
    /\ main' = "prompt"
    /\ UNCHANGED <<logger, threads, fifo, inferior, wrote>>
    /\ UNCHANGED OutsideRelay

\* a thread tests console.inferior_running
ThreadCheck ==
    /\ \E t \in 1..Len(threads) :
        /\ threads[t] = "check"
        /\ threads' = [threads EXCEPT ![t] = redirect_check(console)]
    /\ UNCHANGED <<console, logger, chan, fifo, inferior, main, wrote>>
    /\ UNCHANGED OutsideRelay

\* a thread returns from self.sel.select(timeout=1): with the fifo if it
\* has data, with nothing after the timeout; on a closed selector the call
\* raises or, if it was waiting already, times out
ThreadSelect ==
    /\ \E t \in 1..Len(threads), closed_raises \in BOOLEAN :
        /\ threads[t] = "select"
        /\ threads' = [threads EXCEPT ![t] =
                          IF chan = "closed" THEN (IF closed_raises THEN "done" ELSE "check")
                          ELSE IF fifo.data # <<>> THEN "read"
                          ELSE "check"]
    /\ UNCHANGED <<console, logger, chan, fifo, inferior, main, wrote>>
    /\ UNCHANGED OutsideRelay

\* a thread reads the fifo and writes the lines to logs; the read raises
\* when the fifo was closed, or emptied by another reader, in between
ThreadRead ==
    /\ \E t \in 1..Len(threads) :
        /\ threads[t] = "read"
        /\ IF chan = "closed" \/ fifo.data = <<>>
           THEN /\ threads' = [threads EXCEPT ![t] = "done"]
                /\ UNCHANGED <<logger, fifo, wrote>>
           ELSE /\ threads' = [threads EXCEPT ![t] = "check"]
                /\ logger' = redirect(logger, split_lines(fifo.data))
                /\ fifo' = [fifo EXCEPT !.data = <<>>]
                /\ wrote' = wrote \cup {"relay"}
    /\ UNCHANGED <<console, chan, inferior, main>>
    /\ UNCHANGED OutsideRelay

RelayNext ==
    \/ PanelRun
    \/ Cont
    \/ Stop
    \/ InferiorWrites
    \/ Flush
    \/ ExitBegin
    \/ ExitEnd
    \/ ThreadCheck
    \/ ThreadSelect
    \/ ThreadRead

SpecRelay == RelayInit /\ [][RelayNext]_vars

\* The threads are scheduled: a thread that can take a step of its loop
\* takes it (the select returns within its timeout, the fifo is read
\* without blocking), whatever gdb's own thread does
RelayFairness ==
    /\ WF_vars(ThreadCheck)
    /\ WF_vars(ThreadSelect)
    /\ WF_vars(ThreadRead)

SpecRelayFair == RelayInit /\ [][RelayNext]_vars /\ RelayFairness

----------------------------------------------------------------------------
(* Specification of the ring buffer: the inferior prints lines, the        *)
(* threads in Logger.redirect store them, the Log pane reads the buffer.   *)
(* While one thread is alive it stores each batch in one step; once a      *)
(* second one is alive (after cont, stop, cont) every batch is followed    *)
(* statement by statement.                                                 *)

RingInit ==
    /\ LayoutIdle
    /\ AnsiIdle
    /\ PanelIdle
    /\ RelayIdle
    /\ pane = Pane_new("Log") /\ world = NoWorld /\ out = NoOut
    /\ console = start_logger(reset_flags(TRUE))
    /\ logger = Logger_init
    /\ ring = NoRing
    /\ tmp = NoFs

OutsideRing == <<layout_vars, ansi_vars, panel_vars, relay_vars, pane, world, console, tmp>>

AllIdle == \A w \in 1..Relays : ring.writers[w].pc = "idle"

\* the only thread alive reads a batch and stores its lines
Burst ==
    /\ ring.fine = 0
    /\ logger.cursor <= LastLog
    /\ \E n \in Bursts :
        /\ ring.produced + n <= MaxLines
        /\ logger' = redirect_batch(logger, LinesOf(ring.produced, n))
        /\ ring' = [Remember(ring, LinesOf(ring.produced, n)) EXCEPT !.produced = @ + n]
    /\ out' = NoOut
    /\ UNCHANGED OutsideRing

\* a thread returns from the select and reads a batch
WriterRead ==
    /\ \E w \in 1..Relays, n \in Batches :
        /\ ring.writers[w].pc = "idle"
        /\ ring.fine < MaxFine
        /\ ring.produced + n <= MaxLines
        /\ ring' = [ring EXCEPT !.produced = @ + n, !.fine = @ + 1,
                                !.writers[w] = [pc |-> "store", val |-> 0,
                                                lines |-> LinesOf(ring.produced, n)]]
    /\ out' = NoOut
    /\ UNCHANGED logger
    /\ UNCHANGED OutsideRing

\* `self.logs[self.cursor] = line.replace('\t', '    ')`: an IndexError
\* ends the thread
WriterStore ==
    /\ \E w \in 1..Relays :
        /\ ring.writers[w].pc = "store"
        /\ IF logger.cursor > LastLog
           THEN /\ ring' = [ring EXCEPT !.writers[w] = [IdleWriter EXCEPT !.pc = "dead"]]
                /\ UNCHANGED logger
           ELSE /\ logger' = store(logger, Head(ring.writers[w].lines))
                /\ ring' = [Remember(ring, <<Head(ring.writers[w].lines)>>)
                               EXCEPT !.writers[w].pc = "test"]
    /\ out' = NoOut
    /\ UNCHANGED OutsideRing

\* `if self.cursor == 499:`
WriterTest ==
    /\ \E w \in 1..Relays :
        /\ ring.writers[w].pc = "test"
        /\ ring' = [ring EXCEPT !.writers[w].pc =
                        IF logger.cursor = LastLog THEN "zero" ELSE "load"]
    /\ UNCHANGED <<logger, out>>
    /\ UNCHANGED OutsideRing

\* `self.cursor = 0`
WriterZero ==
    /\ \E w \in 1..Relays :
        /\ ring.writers[w].pc = "zero"
        /\ logger' = [logger EXCEPT !.cursor = 0]
        /\ ring' = [ring EXCEPT !.writers[w] = next_line(@)]
    /\ out' = NoOut
    /\ UNCHANGED OutsideRing

\* `self.cursor += 1`: the load of self.cursor
WriterLoad ==
    /\ \E w \in 1..Relays :
        /\ ring.writers[w].pc = "load"
        /\ ring' = [ring EXCEPT !.writers[w].pc = "write", !.writers[w].val = logger.cursor]
    /\ UNCHANGED <<logger, out>>
    /\ UNCHANGED OutsideRing

\* `self.cursor += 1`: the store of the sum
WriterWrite ==
    /\ \E w \in 1..Relays :
        /\ ring.writers[w].pc = "write"
        /\ logger' = [logger EXCEPT !.cursor = ring.writers[w].val + 1]
        /\ ring' = [ring EXCEPT !.writers[w] = next_line(@)]
    /\ out' = NoOut
    /\ UNCHANGED OutsideRing

\* the Log pane is refreshed, between two batches
LogRefresh ==
    /\ AllIdle
    /\ out.op = "none"
    /\ logger.cursor <= LastLog
    /\ \E height \in Heights :
        out' = [NoOut EXCEPT !.op = "log", !.height = height,
                             !.content = Log_lines(console, logger, height)]
    /\ UNCHANGED <<logger, ring>>
    /\ UNCHANGED OutsideRing

RingNext ==
    \/ Burst
    \/ WriterRead
    \/ WriterStore
    \/ WriterTest
    \/ WriterZero
    \/ WriterLoad
    \/ WriterWrite
    \/ LogRefresh

SpecRing == RingInit /\ [][RingNext]_vars

----------------------------------------------------------------------------
(* Specification of the panes' places: the user loads layouts that the     *)
(* panel accepts, moves panes with 'panel view' and resizes the terminal;  *)
(* the before_prompt hook rebuilds the layout after a resize and renders.  *)

\* the default layout's panes on slots of which two have the id 3
DupIds ==
    [slots |-> Dup5,
     panes |-> << <<"Source", 0>>, <<"ValueHistory", 1>>, <<"Stack", 2>>, <<"Breakpoints", 3>> >>]

\* the layouts of panel.layout_configs here: check_layout_config and
\* Panel.Layout accept each of them
AcceptedConfigs == <<DefaultConfig, Stacked, DupIds>>

\* the arguments of 'panel view'
MovedPanes == {"Source", "Stack", "Watch"}
MovedSlots == {0, 1, 3}

\* 'panel layout IDX' with a layout that is accepted
LoadLayout ==
    /\ pc = "prompt"
    /\ \E idx \in 0..(Len(AcceptedConfigs) - 1) :
        Switched(invoke_layout(panel, idx, AcceptedConfigs, tty), FALSE)
    /\ UNCHANGED <<tty, console>>
    /\ UNCHANGED <<pane, world, logger, out>>
    /\ UNCHANGED OutsidePane

\* 'panel view PANE SLOT'
MovePane ==
    /\ pc = "prompt"
    /\ \E pane_name \in MovedPanes, idx \in MovedSlots :
        Ended("view", <<"p", "a", "n", "e", "l", " ", "v", "i", "e", "w">>, <<pane_name, idx>>,
              invoke_view(panel, pane_name, idx), FALSE)
    /\ UNCHANGED <<tty, retained, console>>
    /\ UNCHANGED <<pane, world, logger, out>>
    /\ UNCHANGED OutsidePane

ViewNext ==
    \/ LoadLayout
    \/ MovePane
    \/ Resize
    \/ RenderHandler

SpecView == PanelInit /\ [][ViewNext]_vars

----------------------------------------------------------------------------
(* A gdb session: the dashboard enabled and disabled, the inferior run      *)
(* with 'panel run', and gdb exiting                                        *)

ChannelInit ==
    /\ LayoutIdle /\ AnsiIdle /\ PaneIdle /\ PanelIdle /\ RelayIdle
    /\ ring = NoRing
    /\ tmp = [NoFs EXCEPT !.session = "on"]

OutsideChannel == <<layout_vars, ansi_vars, pane_vars, panel_vars, relay_vars, ring>>

\* panel.start(), with the value of Panel.config['redirect-inferior-logs']
PanelStart ==
    /\ tmp.session = "on"
    /\ tmp.starts < MaxStarts
    /\ \E redirect_logs \in BOOLEAN : tmp' = Panel_start(tmp, redirect_logs)
    /\ UNCHANGED OutsideChannel

\* panel.end()
PanelEnd ==
    /\ tmp.session = "on"
    /\ tmp.enabled
    /\ tmp' = Panel_end(tmp)
    /\ UNCHANGED OutsideChannel

\* 'panel run': console.start_logger() opens the fifo of self.logger
RunInferior ==
    /\ tmp.session = "on"
    /\ tmp.enabled /\ tmp.path # 0 /\ ~tmp.logging
    /\ tmp' = [tmp EXCEPT !.logging = TRUE, !.opened = tmp.path]
    /\ UNCHANGED OutsideChannel

\* gdb.events.exited: the first inf_exit_logger_handler ends self.logger
\* (its fifo object stays, closed), the others find self.logging False. The
\* Logger of a later panel.start() was never started: its end() raises
\* AttributeError and self.logging stays True
InferiorExited ==
    /\ tmp.session = "on"
    /\ tmp.logging
    /\ tmp' = IF tmp.opened = tmp.path THEN [tmp EXCEPT !.logging = FALSE] ELSE tmp
    /\ UNCHANGED OutsideChannel

\* gdb exits: gdb.events.gdb_exiting is emitted
SessionExit ==
    /\ tmp.session = "on"
    /\ tmp' = [tmp EXCEPT !.session = "exiting"]
    /\ UNCHANGED OutsideChannel

\* the next listener of gdb_exiting
ExitListener ==
    /\ tmp.session = "exiting"
    /\ tmp.ran < tmp.listeners
    /\ tmp' = exiting_listener(tmp)
    /\ UNCHANGED OutsideChannel

ChannelNext ==
    \/ PanelStart
    \/ PanelEnd
    \/ RunInferior
    \/ InferiorExited
    \/ SessionExit
    \/ ExitListener

SpecChannel == ChannelInit /\ [][ChannelNext]_vars

----------------------------------------------------------------------------
(* Specification of the tracked breakpoints: breakpoints are created and   *)
(* deleted in gdb while the dashboard is started and ended; the handlers   *)
(* of the console are connected between a start and the next end           *)

TrackInit ==
    /\ LayoutIdle /\ AnsiIdle /\ PaneIdle /\ PanelIdle /\ RelayIdle /\ StoreIdle

OutsideTrack ==
    <<layout_vars, ansi_vars, relay_vars, store_vars, pane, logger, out, tty, pc, did, cycle,
      retained>>

\* panel.start(): console.start()
TrackStart ==
    /\ ~panel.enabled
    /\ panel' = start(panel, TRUE, tty).self
    /\ console' = Console_start(TRUE)
    /\ world' = [world EXCEPT !.since = world.next_bp]
    /\ UNCHANGED OutsideTrack

\* panel.end(): console.end()
TrackEnd ==
    /\ panel.enabled
    /\ panel' = [panel EXCEPT !.enabled = FALSE]
    /\ console' = Console_end(TRUE)
    /\ world' = [world EXCEPT !.since = world.next_bp]
    /\ UNCHANGED OutsideTrack

\* break / watch: gdb.events.breakpoint_created reaches the handler if it
\* is connected
TrackCreated ==
    /\ world.next_bp <= MaxCreated
    /\ \E bp \in NewBps(world.next_bp) :
        /\ world' = [world EXCEPT !.bps = DictSet(@, bp.number, bp), !.next_bp = @ + 1]
        /\ console' = IF panel.enabled THEN breakpoint_created_handler(console, bp) ELSE console
    /\ UNCHANGED panel
    /\ UNCHANGED OutsideTrack

\* delete: gdb.events.breakpoint_deleted reaches the handler if it is
\* connected
TrackDeleted ==
    /\ \E n \in DictKeys(world.bps) :
        /\ world' = [world EXCEPT !.bps = SelectSeq(@, LAMBDA item : item[1] # n)]
        /\ console' = IF panel.enabled THEN breakpoint_deleted_handler(console, n) ELSE console
    /\ UNCHANGED panel
    /\ UNCHANGED OutsideTrack

TrackNext == TrackStart \/ TrackEnd \/ TrackCreated \/ TrackDeleted

SpecTrack == TrackInit /\ [][TrackNext]_vars

----------------------------------------------------------------------------
(* C1, C2: what the validation accepts                                     *)

RECURSIVE SumOver(_, _)
SumOver(f, S) ==
    IF S = {} THEN 0
    ELSE LET x == CHOOSE y \in S : TRUE IN f[x] + SumOver(f, S \ {x})

Units == 0..(GridUnits - 1)

\* the registered slots (entries of slot_bounds, what sanity_check is given)
\* that cross the horizontal line at y, resp. the vertical line at x
CrossRow(b, y) == {k \in 1..Len(b) : b[k][2][3] <= y /\ y < b[k][2][4]}
CrossCol(b, x) == {k \in 1..Len(b) : b[k][2][1] <= x /\ x < b[k][2][2]}
RowWidth(b, y) == SumOver([k \in 1..Len(b) |-> b[k][2][2] - b[k][2][1]], CrossRow(b, y))
ColHeight(b, x) == SumOver([k \in 1..Len(b) |-> b[k][2][4] - b[k][2][3]], CrossCol(b, x))

FullCoverage(b) ==
    /\ \A y \in Units : RowWidth(b, y) = GridUnits
    /\ \A x \in Units : ColHeight(b, x) = GridUnits

Decoded == layout.status # "none" /\ layout.error.what # "missing element"

Covering(x, y) ==
    {n \in 1..Len(layout.nodes) :
        /\ layout.nodes[n].uxl <= x /\ x < layout.nodes[n].uxr
        /\ layout.nodes[n].uyt <= y /\ y < layout.nodes[n].uyb}

InsideGrid ==
    \A n \in 1..Len(layout.nodes) :
        layout.nodes[n].uxr <= GridUnits /\ layout.nodes[n].uyb <= GridUnits

UniqueIds(cfg) ==
    \A p, q \in 1..Len(cfg) : (cfg[p] # None /\ cfg[q] # None /\ p # q) => cfg[p][1] # cfg[q][1]

\* C2 (as claimed): every slots config the layout accepts tiles the grid:
\* every slot lies inside the 10x10 grid and every unit cell is covered by
\* exactly one slot (no gap, no overlap). Stated here for the configs whose
\* ids are unique, as the config's documentation asks; it fails already there.
C2_AcceptedTiles ==
    (layout.status = "ok" /\ UniqueIds(config)) =>
        /\ InsideGrid
        /\ \A x \in Units, y \in Units : Cardinality(Covering(x, y)) = 1

----------------------------------------------------------------------------
(* C5 .. C9: fitting a styled line                                         *)

\* the characters of s outside its escape sequences (ESC up to the next m)
RECURSIVE Visible(_)
Visible(s) ==
    IF s = <<>> THEN <<>>
    ELSE IF Head(s) = ESC
    THEN LET e == Find(s, <<"m">>, 1)
         IN IF e = 0 THEN <<>> ELSE Visible(SubSeq(s, e + 1, Len(s)))
    ELSE <<Head(s)>> \o Visible(Tail(s))

RawText(runs) == Concat([k \in 1..Len(runs) |-> runs[k][2]])

\* every visible character of the runs with the wrapper of its run
TaggedLine(runs) ==
    Concat([k \in 1..Len(runs) |->
               [j \in 1..Len(runs[k][2]) |-> <<runs[k][2][j], runs[k][3]>>]])

Templates(runs) == {runs[k][3] : k \in 1..Len(runs)} \ {None}

WrapsOf(runs) ==
    Concat([k \in 1..Len(runs) |-> IF runs[k][3] = None THEN <<>> ELSE <<runs[k][3]>>])

IsPrefix(a, b) == Len(a) <= Len(b) /\ SubSeq(b, 1, Len(a)) = a

\* the staged prefixes and suffixes as match puts them around the line
RECURSIVE StagedPre(_)
StagedPre(staged) ==
    IF staged = <<>> THEN <<>> ELSE StagedPre(Tail(staged)) \o Head(staged)[1]

RECURSIVE StagedSuf(_)
StagedSuf(staged) ==
    IF staged = <<>> THEN <<>> ELSE Head(staged)[2] \o StagedSuf(Tail(staged))

\* what the last match returned, without the decoration staged before it
Body ==
    SubSeq(call.ret, Len(StagedPre(call.staged)) + 1,
           Len(call.ret) - Len(StagedSuf(call.staged)))

\* reads s from index p as plain characters and segments prefix text suffix
\* of the templates T: ok if all of s reads that way, tags are the visible
\* characters with their template, wraps the templates in order
RECURSIVE parse(_, _, _)
parse(s, p, T) ==
    IF p > Len(s) THEN [ok |-> TRUE, tags |-> <<>>, wraps |-> <<>>]
    ELSE IF s[p] # ESC
    THEN LET r == parse(s, p + 1, T)
         IN [ok |-> r.ok, tags |-> << <<s[p], None>> >> \o r.tags, wraps |-> r.wraps]
    ELSE LET textof(t) == p + Len(t[1])
             sufof(t) == Find(s, <<ESC>>, textof(t))
             fits == {t \in T :
                        /\ textof(t) - 1 <= Len(s)
                        /\ SubSeq(s, p, textof(t) - 1) = t[1]
                        /\ sufof(t) # 0
                        /\ sufof(t) + Len(t[2]) - 1 <= Len(s)
                        /\ SubSeq(s, sufof(t), sufof(t) + Len(t[2]) - 1) = t[2]}
         IN IF fits = {} THEN [ok |-> FALSE, tags |-> <<>>, wraps |-> <<>>]
            ELSE LET t == CHOOSE u \in fits : TRUE
                     r == parse(s, sufof(t) + Len(t[2]), T)
                 IN [ok |-> r.ok,
                     tags |-> [j \in 1..(sufof(t) - textof(t)) |-> <<s[textof(t) + j - 1], t>>]
                              \o r.tags,
                     wraps |-> <<t>> \o r.wraps]

Fitted == call.op = "match" /\ call.raised = ""

\* C5 (as claimed): match(W, padding=True) returns a string, and its visible
\* length is exactly W, for every styled line and every W >= 0.
C5_PaddedWidthExact ==
    (call.op = "match" /\ call.padding) =>
        /\ call.raised = ""
        /\ Len(Visible(call.ret)) = call.width

\* C6: a match to a width W that is at most the visible length of the line
\* returns a string in which every template prefix is followed by the text
\* of its run and its own suffix: the string reads as the runs of the line
\* in order up to the cut (then spaces of padding after a whole line), with
\* no template of a run after the cut.
C6_TruncationBalanced ==
    (Fitted /\ call.width <= Len(RawText(call.before))) =>
        LET r == parse(Body, 1, Templates(call.before))
            full == TaggedLine(call.before)
        IN /\ r.ok
           /\ IsPrefix(r.wraps, WrapsOf(call.before))
           /\ \E k \in 0..Len(r.tags) :
                /\ IsPrefix(SubSeq(r.tags, 1, k), full)
                /\ \A j \in (k + 1)..Len(r.tags) : r.tags[j] = <<" ", None>>
                /\ k < Len(r.tags) => (call.padding /\ k = Len(full))

\* a line was cut inside a coloured run that other runs follow
C6_Witness ==
    /\ Fitted
    /\ call.width > 0
    /\ call.width < Len(RawText(call.before))
    /\ TaggedLine(call.before)[call.width][2] # None
    /\ TaggedLine(call.before)[call.width + 1][2] = TaggedLine(call.before)[call.width][2]
    /\ \E k \in 1..Len(call.before) : call.before[k][1] > call.width + 1
    /\ Len(Visible(call.ret)) = call.width

ExampleLine ==
    <<" ", " ", "1", "2", " ", ESC, "[", "3", "8", ";", "5", ";", "2", "1", "4", "m",
      "f", "o", "o", "(", ")", ESC, "[", "3", "9", "m">>

ExampleFitted ==
    <<" ", " ", "1", "2", " ", ESC, "[", "3", "8", ";", "5", ";", "2", "1", "4", "m",
      "f", ESC, "[", "3", "9", "m">>

\* C7 (as claimed): a match to a width W below the visible length of the
\* line returns exactly the first W visible characters of the line, each in
\* the template of its own run; the line decoded from
\* '  12 ESC[38;5;214mfoo()ESC[39m' fitted to 6 without padding gives
\* '  12 ESC[38;5;214mfESC[39m'.
C7_TruncationKeepsPrefix ==
    /\ (Fitted /\ call.width < Len(RawText(call.before))) =>
          LET r == parse(Body, 1, Templates(call.before))
          IN r.ok /\ r.tags = SubSeq(TaggedLine(call.before), 1, call.width)
    /\ (Fitted /\ src.kind = "decode" /\ src.encoded = ExampleLine /\ call.width = 6
            /\ ~call.padding /\ call.staged = <<>>) =>
          call.ret = ExampleFitted

\* C8 (as claimed): for every string s without an escape character, the
\* line decoded from s and fitted to len(s), with or without padding,
\* returns s.
C8_RoundTrip ==
    (/\ src.kind = "decode"
     /\ ESC \notin Range(src.encoded)
     /\ call.op = "match"
     /\ call.staged = <<>>
     /\ call.width = Len(src.encoded)) =>
        /\ call.raised = ""
        /\ call.ret = src.encoded

DecorationPrefixes == {<<ESC, "[", "4", "m">>, bp_disabled_wrapper[1]}

\* C9: a match returns the fitted string inside exactly the decorations that
\* were staged before it, each once (none if nothing was staged), and leaves
\* nothing staged, so that the next match without a new staging returns the
\* string without decoration; the runs of the line are what they were.
C9_DecorationOnce ==
    Fitted =>
        /\ line.fix = <<>>
        /\ line.seq = call.before
        /\ call.ret = StagedPre(call.staged) \o Body \o StagedSuf(call.staged)
        /\ \A d \in DecorationPrefixes : Find(Body, d, 1) = 0
        /\ Body = fit(call.before, call.width, call.padding)

\* a line staged twice was fitted, cut inside a coloured run
C9_Witness ==
    /\ Fitted
    /\ Len(call.staged) = 2
    /\ call.width < Len(RawText(call.before))
    /\ Find(call.ret, <<ESC, "[", "3", "8">>, 1) # 0
    /\ line.fix = <<>>


\* the counter of every run is the length of the raw text up to its end
Cumulative(runs) ==
    \A k \in 1..Len(runs) : runs[k][1] = Len(RawText(SubSeq(runs, 1, k)))

\* C37 In every line a pane hands to match (a decoded source line, a Stack
\* line, a Breakpoints line with its hit count), the counter of each run is
\* the total length of the raw text of the runs up to and including it
C37_CountersCumulative == call.op = "match" => Cumulative(call.before)

----------------------------------------------------------------------------
(* Pane.render                                                             *)

\* C10 Pane.render returns exactly `height` lines, for each of the six
\* panes: short content is filled with blank lines, long content is cut
C10_RenderHeightExact ==
    (out.op = "render" /\ out.raised = "") => Len(out.content) = out.height

----------------------------------------------------------------------------
(* The caches of the panes                                                 *)

\* what Stack.refresh_content computes from the stack as it is now
StackNow ==
    Stack_refresh_content(pane, [console EXCEPT !.sal_outdated = TRUE], world.frames).self.content

\* what Watch.refresh_content computes from the watch list as it is now
WatchNow(changed) ==
    Watch_refresh_content(pane, [console EXCEPT !.refresh_watch_val = TRUE], Values(changed),
                          out.height).self.content

\* C14 A stop event (a 'panel watch' command) is never lost to the Stack
\* (Watch) pane: whenever the pane is rendered after it, its content was
\* recomputed from the state after the event, also when cycles in between
\* were skipped or the pane was hidden
C14_DirtyFlagNotLost ==
    (out.op = "render" /\ out.raised = "") =>
        /\ pane.cls = "Stack" => pane.content = StackNow
        /\ pane.cls = "Watch" => \E changed \in BOOLEAN : pane.content = WatchNow(changed)

\* the cache the prints made so far should have left
RECURSIVE CnvOf(_)
CnvOf(prints) ==
    IF prints = <<>> THEN <<>>
    ELSE CnvOf(SubSeq(prints, 1, Len(prints) - 1))
             \o << ljust(str(prints[Len(prints)][1]), 3) \o <<" ">> \o prints[Len(prints)][2] >>
             \o shrink_value_string(prints[Len(prints)][3])

\* C15 The value-history cache holds every value a print command added to
\* gdb's value history exactly once and in command order, once the refresh
\* cycle of the command ran, skipped or not, pane hidden or not
C15_HistoryComplete ==
    (pane.cls = "ValueHistory" /\ ~world.pending) => pane.cnv = CnvOf(world.prints)


\* the Source pane's cached file and line are those of the selected frame
SourceAtFrame(self, frames) ==
    IF frames = <<>> THEN self.file = None
    ELSE /\ self.frame_line_num = frames[1].line
         /\ self.curr_line_num = frames[1].line
         /\ self.file = (IF frames[1].symtab THEN frames[1].filename ELSE None)

\* a refresh cycle that rendered the pane and cleared sal_outdated
RenderedStale ==
    /\ pane.cls = "Source"
    /\ console.sal_outdated /\ ~console'.sal_outdated
    /\ out'.op = "render"

\* C36 A refresh cycle that renders the Source pane while sal_outdated is
\* set leaves the pane's cached file and line at the selected frame's
\* location when it clears the flag, also when bp_create is set in that cycle
C36_SourceFollowsStop == [][RenderedStale => SourceAtFrame(pane', world.frames)]_vars

----------------------------------------------------------------------------
(* The layout switch                                                       *)

\* the tests of skip_render other than the validity of the layout ask for
\* a render
Due(self) ==
    self.render_once \/ (self.auto_render /\ ~self.err /\ ~self.skip_render_once)

\* C3 After a rejected layout switch the previous layout stays in use: a
\* refresh cycle that is due renders it, until a switch succeeds
C3_RejectedSwitchKeepsRendering ==
    (cycle.ran /\ retained # NoShown /\ Due(cycle.before))
        => (cycle.rendered /\ cycle.shown.config = retained.config)

LayoutState(self) ==
    <<self.current_layout_config, self.layout, self.layout_valid, self.pane_slot,
      self.slot_pane>>

\* C4 A rejected layout config is never partially applied: when
\* refresh_layout(new_config) raises, current_layout_config, the layout
\* tree, layout_valid and the pane-to-slot assignments are as before
C4_RejectedSwitchLeavesState ==
    (pc = "hook" /\ did.name = "layout" /\ did.raised \notin {"", "PanelError"})
        => LayoutState(panel) = LayoutState(did.before)

----------------------------------------------------------------------------
(* The refresh cycle                                                       *)

\* C12 The skip rules are tried in the order layout-invalid, render-now,
\* auto-render off, pending error, skip-once, and the first that matches
\* decides: the cycle renders iff layout_valid and (render_once or
\* (auto_render and not err and not skip_render_once)), and each of
\* render_once, err, skip_render_once is cleared exactly when its own rule
\* decided
C12_SkipRulesInOrder ==
    cycle.ran =>
        /\ ~cycle.skipped
               = (/\ cycle.before.layout_valid
                  /\ \/ cycle.before.render_once
                     \/ /\ cycle.before.auto_render
                        /\ ~cycle.before.err
                        /\ ~cycle.before.skip_render_once)
        /\ cycle.decided.render_once
               = (cycle.before.render_once /\ ~cycle.before.layout_valid)
        /\ cycle.decided.err
               = (/\ cycle.before.err
                  /\ ~(/\ cycle.before.layout_valid
                       /\ ~cycle.before.render_once
                       /\ cycle.before.auto_render))
        /\ cycle.decided.skip_render_once
               = (/\ cycle.before.skip_render_once
                  /\ ~(/\ cycle.before.layout_valid
                       /\ ~cycle.before.render_once
                       /\ cycle.before.auto_render
                       /\ ~cycle.before.err))
        /\ [cycle.decided EXCEPT !.render_once = FALSE, !.err = FALSE,
                                 !.skip_render_once = FALSE]
               = [cycle.before EXCEPT !.render_once = FALSE, !.err = FALSE,
                                      !.skip_render_once = FALSE]

\* a cycle with a pending error and a pending skip request: the error rule
\* decides and leaves the request
C12_Witness ==
    /\ cycle.ran
    /\ cycle.before.layout_valid /\ cycle.before.auto_render /\ ~cycle.before.render_once
    /\ cycle.before.err /\ cycle.before.skip_render_once
    /\ cycle.skipped
    /\ ~cycle.decided.err /\ cycle.decided.skip_render_once

\* C13 sal_outdated and refresh_watch_val are cleared by a refresh cycle
\* only after it rendered: a skipped cycle leaves both as they were
C13_SkippedCycleKeepsFlags ==
    (cycle.ran /\ Flags(console) # cycle.flags) => cycle.rendered

\* C16 With auto-render on, a command that failed suppresses the refresh
\* cycle that follows it and no other: that cycle is skipped and clears
\* the error flag
C16_ErrorSkipsOneCycle ==
    (cycle.ran /\ cycle.failed /\ cycle.before.auto_render)
        => (cycle.skipped /\ ~cycle.decided.err)

\* C17 A pass-through command suppresses exactly the refresh cycle that
\* follows it: that cycle is skipped and clears the skip request
C17_PassThroughSkipsOneCycle ==
    (cycle.ran /\ cycle.cmd = "silent")
        => (cycle.skipped /\ ~cycle.decided.skip_render_once)

\* what 'panel view P S' was given and what it started from: A the slot of
\* P (0: hidden), B the slot S names, Q the pane B held
ViewP == did.args[1]
ViewB == DictGet(did.before.layout.slots, did.args[2])
ViewA == DictGet(did.before.pane_slot, ViewP)
ViewQ == did.before.slot_pane[ViewB]

\* C24 'panel view P S' that returns has swapped: P is in S and Q, which S
\* held, is in the slot P had, or hidden if P was hidden; every other
\* pane keeps its slot, every other slot its pane, and no slot that held a
\* pane is without one
C24_ViewSwaps ==
    (pc = "hook" /\ did.name = "view" /\ did.raised = "")
        => /\ DictGet(panel.pane_slot, ViewP) = ViewB
           /\ panel.slot_pane[ViewB] = ViewP
           /\ ViewQ # ViewP => DictGet(panel.pane_slot, ViewQ) = ViewA
           /\ ViewA # 0 => panel.slot_pane[ViewA] = ViewQ
           /\ \A k \in 1..Len(PaneNames) :
                  PaneNames[k] \notin {ViewP, ViewQ}
                      => DictGet(panel.pane_slot, PaneNames[k])
                             = DictGet(did.before.pane_slot, PaneNames[k])
           /\ \A n \in 1..Len(panel.slot_pane) :
                  /\ n \notin {ViewA, ViewB} => panel.slot_pane[n] = did.before.slot_pane[n]
                  /\ did.before.slot_pane[n] # NoPane => panel.slot_pane[n] # NoPane
           /\ panel.layout = did.before.layout

\* a pane that had a slot was moved to a slot that held another pane
C24_Witness ==
    /\ pc = "hook" /\ did.name = "view" /\ did.raised = ""
    /\ ViewA # 0
    /\ ViewA # ViewB
    /\ panel.slot_pane[ViewA] = ViewQ

\* a hidden pane was given a slot, the pane of the slot is hidden
C24_HiddenTakesSlot ==
    /\ pc = "hook" /\ did.name = "view" /\ did.raised = ""
    /\ ViewA = 0
    /\ DictGet(panel.pane_slot, ViewQ) = 0

\* the slots of the tree and the panes hold each other
Paired(self) ==
    /\ \A n \in 1..Len(self.slot_pane) :
          /\ self.slot_pane[n] # NoPane
          /\ DictGet(self.pane_slot, self.slot_pane[n]) = n
    /\ \A k \in 1..Len(PaneNames) :
          DictGet(self.pane_slot, PaneNames[k]) # 0
              => self.slot_pane[DictGet(self.pane_slot, PaneNames[k])] = PaneNames[k]

\* C25 After accepted layout loads, rebuilds on a resize and 'panel view'
\* commands every slot of the tree holds a pane whose slot it is, no pane
\* is held by two slots, and a render meets no slot without a pane
C25_PanesAndSlotsPaired ==
    /\ panel.layout_valid => Paired(panel)
    /\ cycle.raised # "PanelError"


\* the id of the slot a pane is in, -1 for a hidden pane
SlotIdOf(self, name) ==
    LET n == DictGet(self.pane_slot, name)
    IN IF n = 0 THEN 0 - 1 ELSE self.layout.nodes[n].id

\* C34 The panes' places (those made by 'panel view' included) persist over
\* a refresh cycle that renders, also when the cycle rebuilt the layout
\* after a resize: each pane is in the slot id it was in before the cycle
C34_ViewPersists ==
    (cycle.ran /\ cycle.rendered /\ cycle.before.layout_valid)
        => \A k \in 1..Len(PaneNames) :
               SlotIdOf(panel, PaneNames[k]) = SlotIdOf(cycle.before, PaneNames[k])

----------------------------------------------------------------------------
(* The lines of the dashboard                                              *)

\* C11 Rendering the tree of an accepted layout from its root returns
\* exactly (terminal height - 2) lines, and Panel.render prints them and
\* one border line
C11_RootHeightExact ==
    drawn.op = "render" =>
        /\ drawn.raised = ""
        /\ Len(drawn.root) = term[2] - 2
        /\ Len(drawn.printed) = Len(drawn.root) + 1

\* what the right and the below subtree of node n render
RightOf(L, lens, n) == Slot_render(L.nodes, L.slots, L.nodes[n].right, lens)
BelowOf(L, lens, n) == Slot_render(L.nodes, L.slots, L.nodes[n].below, lens)

\* node n holds a pane, has a below subtree and a right subtree that
\* renders more lines than its pane
TallRight(L, lens, n) ==
    /\ DictGet(L.slots, L.nodes[n].id) = n
    /\ L.nodes[n].right # 0 /\ L.nodes[n].below # 0
    /\ RightOf(L, lens, n).raised = "" /\ BelowOf(L, lens, n).raised = ""
    /\ Len(RightOf(L, lens, n).content) > lens[n]

\* the left column of row k of node n: its pane, the border, the below subtree
LeftPart(b, own, n, k) ==
    IF k <= own THEN <<n>>
    ELSE IF k = own + 1 THEN <<DeliH>>
    ELSE b.content[k - own - 1]

Spliced(L, lens, n) ==
    LET r == RightOf(L, lens, n)
        b == BelowOf(L, lens, n)
        res == Slot_render(L.nodes, L.slots, n, lens)
    IN  /\ res.raised = ""
        /\ Len(res.content) = lens[n] + 1 + Len(b.content)
        /\ Len(res.content) = Len(r.content)
        /\ \A k \in 1..Len(res.content) :
               res.content[k] = LeftPart(b, lens[n], n, k) \o <<DeliV>> \o r.content[k]
        /\ deli_width(L.nodes, n) = L.nodes[n].width

\* C31 A slot whose right subtree renders more lines than its pane and that
\* has a below subtree renders, in every row, its left column (the pane's
\* rows, directly under them the border over the slot's full width, under
\* it every line of the below subtree) followed by the right subtree's line
C31_BelowSplicedUnderPane ==
    drawn.op = "render" =>
        \A n \in 1..Len(layout.nodes) :
            TallRight(layout, PaneLines(layout.nodes, drawn.over), n)
                => Spliced(layout, PaneLines(layout.nodes, drawn.over), n)

----------------------------------------------------------------------------
(* The relay thread                                                        *)

\* C18 At most one thread runs the loop of Logger.redirect at any moment:
\* running_handler never starts a thread while an earlier one is alive
C18_OneRelayThread == Cardinality(Alive) <= 1

\* C19 Only the relay thread writes logs and cursor: nothing that runs on
\* gdb's own thread writes them
C19_RelaySoleWriter == wrote \subseteq {"relay"}

\* C20 The channel is closed (Logger.end) only after the relay thread has
\* terminated: no thread is alive when the channel is closed
C20_ClosedAfterThreadEnd == chan = "closed" => Alive = {}

\* C21 The relay thread tests inferior_running at the top of every
\* iteration: a thread at the test with the flag cleared leaves the loop
\* there (it starts no further poll), and from any state with the flag
\* cleared every thread has terminated at some later state unless the flag
\* was set again
C21_ThreadLeaves ==
    /\ [][\A t \in 1..Len(threads) :
            (threads[t] = "check" /\ ~console.inferior_running /\ threads'[t] # "check")
                => threads'[t] = "done"]_vars
    /\ (~console.inferior_running) ~> (Alive = {} \/ console.inferior_running)

\* a thread has left its loop on the cleared flag, the fifo still open
C21_Witness ==
    /\ threads # <<>>
    /\ Alive = {}
    /\ chan = "open"
    /\ ~console.inferior_running
    /\ inferior = "stopped"

----------------------------------------------------------------------------
(* The ring buffer                                                         *)

\* C22 After more than 500 lines were stored, the 500 entries of logs read
\* circularly from the cursor are the last 500 lines stored, in the order
\* they were stored
C22_RingKeepsLast500 ==
    (ring.stored > LogSize /\ AllIdle) => Circular(logger) = ring.hist

\* C23 Before the buffer first fills, the Log pane returns the last
\* min(height, stored) lines stored, in order, and so never a slot that was
\* never written
C23_ReadBeforeFill ==
    (out.op = "log" /\ ring.stored < LogSize)
        => out.content = LastN(ring.hist, Min(out.height, ring.stored))


\* C32 Whatever the interleaving of the threads that write the buffer (a
\* relay thread with another relay thread or with 'panel flush'), the
\* cursor stays in 0..499 and every store lands in the buffer: no store
\* raises IndexError
C32_CursorInBuffer ==
    /\ logger.cursor \in 0..LastLog
    /\ \A w \in 1..Relays : ring.writers[w].pc # "dead"

----------------------------------------------------------------------------
(* The slots' rectangles and the decoding of the slots list                 *)

\* the slots Panel.Layout gave a rectangle: those kept in self.slots
Addressable(L) == {n \in 1..Len(L.nodes) : DictGet(L.slots, L.nodes[n].id) = n}

\* real_xs[xl] of a slot, before `slot.xl = max(0, slot.xl)`
RawXl(s) == IF s.xl = 0 THEN 0 - 1 ELSE s.xl

\* the pixel coordinates of the four edges of a slot: real_xs[xl],
\* real_xs[xr], real_ys[yt], real_ys[yb]
LeftPx(s) == RawXl(s)
RightPx(s) == RawXl(s) + s.width + 2
TopPx(s) == s.yt
BottomPx(s) == s.yt + s.height + 1

\* the edges of the slots on an axis: <<unit coordinate, pixel coordinate>>
XEdges(L) ==
    {<<L.nodes[n].uxl, LeftPx(L.nodes[n])>> : n \in Addressable(L)}
    \cup {<<L.nodes[n].uxr, RightPx(L.nodes[n])>> : n \in Addressable(L)}
YEdges(L) ==
    {<<L.nodes[n].uyt, TopPx(L.nodes[n])>> : n \in Addressable(L)}
    \cup {<<L.nodes[n].uyb, BottomPx(L.nodes[n])>> : n \in Addressable(L)}

Aligned(edges) == \A e \in edges, f \in edges : e[1] = f[1] => e[2] = f[2]

\* C26 In an accepted layout two edges of slots with the same unit
\* coordinate on an axis have the same pixel coordinate on that axis
C26_EdgesAligned ==
    layout.status = "ok" => Aligned(XEdges(layout)) /\ Aligned(YEdges(layout))

Increasing(edges) == \A e \in edges, f \in edges : e[1] < f[1] => e[2] < f[2]

\* C33 In an accepted layout, on a terminal with at least as many columns
\* and content rows as the layout has slots, the pixel coordinate of the
\* slots' edges (the outer edges included) grows strictly with the unit
\* coordinate on each axis, and every slot is at least 1 wide and 1 high
C33_PixelsIncrease ==
    (layout.status = "ok" /\ term[1] >= NumSlots(config) /\ term[2] - 2 >= NumSlots(config))
        => /\ Increasing(XEdges(layout))
           /\ Increasing(YEdges(layout))
           /\ \A n \in Addressable(layout) :
                  layout.nodes[n].width >= 1 /\ layout.nodes[n].height >= 1

\* the cells of the content area a slot takes, border included
InRect(s, x, y, width, height) ==
    /\ Max(0, LeftPx(s)) <= x /\ x < Min(width, RightPx(s))
    /\ TopPx(s) <= y /\ y < Min(height, BottomPx(s))

Tiles(L, width, height) ==
    \A x \in 0..(width - 1), y \in 0..(height - 1) :
        Cardinality({n \in Addressable(L) : InRect(L.nodes[n], x, y, width, height)}) = 1

\* C27 The default layout on an 80x24 terminal is accepted, has the four
\* slots 0, 1, 2, 3, and their rectangles tile the 80x22 content area: every
\* cell is in exactly one of them
C27_DefaultTiles ==
    (config = DefaultSlots /\ term = DefaultTerm /\ layout.status # "none")
        => /\ layout.status = "ok"
           /\ Len(layout.nodes) = 4
           /\ DictKeys(layout.slots) = {0, 1, 2, 3}
           /\ Addressable(layout) = 1..4
           /\ Tiles(layout, term[1], term[2] - 2)

C27_Witness == config = DefaultSlots /\ term = DefaultTerm /\ layout.status = "ok"

\* the pre-order encoding read from the left: no prefix of cfg is a
\* complete tree
RunsOut(cfg) == \A k \in 0..Len(cfg) : Open(SubSeq(cfg, 1, k)) > 0

\* a proper prefix of cfg is a complete tree
HasLeftover(cfg) == \E k \in 0..(Len(cfg) - 1) : Open(SubSeq(cfg, 1, k)) = 0

\* C28 A slots list that runs out before every branch is resolved is
\* rejected with PanelConfigError by Panel.Layout
C28_RunsOutRejected ==
    (layout.status # "none" /\ RunsOut(config))
        => /\ layout.status = "raised"
           /\ layout.error = PanelConfigError("missing element", 0, 0, 0)

\* a list with a slot in it that ran out was handed to Panel.Layout
C28_Witness ==
    /\ layout.status = "raised"
    /\ RunsOut(config)
    /\ NumSlots(config) > 1

\* C29 A slots list with elements left after the root's tree is complete
\* is not accepted: Panel.Layout rejects it with PanelConfigError
C29_LeftoverRejected ==
    (layout.status # "none" /\ HasLeftover(config))
        => layout.status = "raised" /\ layout.error.kind = "PanelConfigError"

----------------------------------------------------------------------------
(* The fifo at the end of the session                                       *)

\* gdb has exited: every listener of gdb_exiting was called
Exited == tmp.session = "exiting" /\ tmp.ran = tmp.listeners

\* C30 After gdb has exited, whatever starts and ends of the dashboard
\* came before, no fifo made by the dashboard is left in /tmp
C30_NoFifoLeft == Exited => tmp.paths = {}

----------------------------------------------------------------------------
(* The breakpoints the console tracks                                      *)

\* the breakpoints created since the last reset_flags and not deleted, in
\* the order of creation
CreatedSince(w) ==
    LET Recent(item) == item[1] >= w.since
        kept == SelectSeq(w.bps, Recent)
    IN [k \in 1..Len(kept) |-> kept[k][1]]

\* C35 While the dashboard is started, console.bps holds exactly the
\* breakpoints created since the last reset_flags and not deleted since,
\* in the order of creation
C35_TracksCreated == panel.enabled => console.bps = CreatedSince(world)

====
